---- MODULE Spec2Model ----
(***************************************************************************)
(* UX-Audio-Router: the jitter ring buffer (js/audio.js, RingBuffer), the  *)
(* UXD1 ingestion decoder (js/ipc.js, DirectServer) and the hand-off from  *)
(* the decoder to the engine (AudioEngine.processDirectAudio).             *)
(*                                                                         *)
(* Then the routing matrix (js/store.js, Store), the gain automation of    *)
(* the engine's per-Output chains (AudioEngine.updateAllGains and          *)
(* updateStripParams) and the playout scheduler (AudioEngine.scheduleAudio).*)
(*                                                                         *)
(* Eleven specifications:                                                  *)
(*   SpecRing   the RingBuffer class driven by push / pop / clear;         *)
(*   Spec       the DirectServer fed by a sender over the socket, handing  *)
(*              decoded samples to the running engine's ring buffer;       *)
(*   SpecStore  the Store driven through its methods, with any id;         *)
(*   SpecGains  the window's controls driving the Store and the engine's   *)
(*              chains;                                                    *)
(*   SpecSched  the running engine's scheduler tick over its chains;       *)
(*   SpecPlay   senders connecting one after the other to the running      *)
(*              engine, from the handshake to the scheduler tick;          *)
(*   SpecEngine start() await by await, with the window's buttons and       *)
(*              stop() running in between;                                  *)
(*   SpecDrift  the scheduler tick with any target buffer configured;       *)
(*   SpecDirect the direct-scheduling processDirectAudio of js/audio.js;    *)
(*   SpecFail   start() with a createStripContext that may throw;           *)
(*   SpecTwo    the DirectServer with several sockets open at a time.       *)
(***************************************************************************)
EXTENDS Integers, Sequences, FiniteSets, TLC

VARIABLES
    ringBuffer,      \* AudioEngine.ringBuffer: buffers, writePtr, readPtr, available
    lastOp,          \* the RingBuffer call made last, with its arguments and result
    produced,        \* number of the next frame the producer pushes
    isRunning,       \* AudioEngine.isRunning
    socket,          \* DirectServer.socket: 0 is null, else the connection's number
    socketState,     \* the accepted socket: "none", "open", "ended", "errored", "destroyed"
    isHeaderReceived,\* DirectServer.isHeaderReceived
    headerBuffer,    \* DirectServer.headerBuffer (sequence of bytes)
    sampleRate,      \* DirectServer.sampleRate
    status,          \* what reportStatus last told onStatusChange
    wire,            \* bytes the sender has written and the socket has not yet delivered
    conn,            \* the latest connection: its number, sender and bytes delivered (history)
    lastData,        \* what the latest 'data' event did (history)
    store,           \* the Store: data.inputs, data.outputs, directRoutingSet, direct settings
    saved,           \* localStorage's uxAudioRouterSettings, as save() last wrote it
    strips,          \* AudioEngine.strips: per Output id, the chain's gain targets and cursor
    hardwareInputs,  \* AudioEngine.hardwareInputs: the Input ids with an open stream
    now,             \* per Output id, its context's currentTime
    lastCall,        \* the Store / engine call made last, with its arguments and result
    schedulerInterval, \* AudioEngine.schedulerInterval: 0 is null, else the timer's handle
    intervals,       \* the handles of the timers setInterval made and clearInterval has not cleared
    starts,          \* the calls of start() suspended in an await, in the order they began
    sockets          \* every socket the server accepted, in the order accepted (SpecTwo)

\* the timers and the suspended calls are followed in SpecEngine
asyncVars == <<schedulerInterval, intervals, starts>>

mixVars == <<store, saved, strips, hardwareInputs, now, lastCall, asyncVars>>

vars == <<ringBuffer, lastOp, produced, isRunning, socket, socketState,
          isHeaderReceived, headerBuffer, sampleRate, status, wire, conn, lastData,
          sockets, mixVars>>

(***************************************************************************)
(* Bounds                                                                  *)
(***************************************************************************)
\* capacity of the modelled ring buffer, in frames (the engine's is 96000)
RingSize == 3
\* the cap on the accumulated header bytes (1024 in handleHandshake), scaled
HeaderCap == 16
\* connections a run accepts, one after the other
MaxConns == 2
\* hardware Inputs the Store holds at a time
MaxInputs == 1
\* Outputs the Store holds at a time
MaxOutputs == 2
\* frames in a scheduler chunk (CHUNK_SIZE is 1024), scaled
ChunkSize == 2
\* what an Output's clock advances by in one step, in 1/3000 s
ClockStep == 700
\* the time up to which clocks advance and audio is fed, in 1/3000 s
MaxTime == 1100
\* calls of start() in flight and scheduler timers alive, together
MaxTimers == 2

(***************************************************************************)
(* JavaScript values                                                       *)
(***************************************************************************)
\* An argument that may be missing: {} is undefined, {n} is the number n.
Undefined == {}
Num(n) == {n}
IsNumber(x) == x # {}
ValueOf(x) == CHOOSE n \in x : TRUE

Min(a, b) == IF a <= b THEN a ELSE b

\* seq.slice(from) for 0 <= from, as a sequence
SliceFrom(s, from) == IF from >= Len(s) THEN <<>> ELSE SubSeq(s, from + 1, Len(s))
\* seq.slice(0, to)
SliceTo(s, to) == SubSeq(s, 1, Min(to, Len(s)))
\* seq.slice(-n): the last n elements (the whole sequence when it is shorter)
SliceLast(s, n) == IF Len(s) <= n THEN s ELSE SubSeq(s, Len(s) - n + 1, Len(s))

(***************************************************************************)
(* RingBuffer (js/audio.js)                                                *)
(***************************************************************************)
Channels == {0, 1}

\* new RingBuffer(size, 2): zero-filled Float32Arrays, cursors at 0
NewRingBuffer(size) ==
    [ size      |-> size,
      channels  |-> Cardinality(Channels),
      buffers   |-> [ch \in Channels |-> [k \in 0 .. size - 1 |-> 0]],
      writePtr  |-> 0,
      readPtr   |-> 0,
      available |-> 0 ]

\* push: Math.min(this.channels, inputChannels); NaN (no channel copied) when
\* inputChannels is undefined
CopyCh(rb, inputChannels) ==
    IF IsNumber(inputChannels) THEN Min(rb.channels, ValueOf(inputChannels)) ELSE 0

\* push: the loop test i < floatArray.length / inputChannels; false for every i
\* when inputChannels is undefined (the quotient is NaN)
PushLoopTest(floatArray, inputChannels, i) ==
    /\ IsNumber(inputChannels)
    /\ i * ValueOf(inputChannels) < Len(floatArray)

\* (mutant) the channels of a frame stored crosswise
PushStoreSwapped(rb, floatArray, inputChannels, i) ==
    [ch \in Channels |->
        IF ch < CopyCh(rb, inputChannels)
        THEN [rb.buffers[ch] EXCEPT
                 ![rb.writePtr] = floatArray[i * ValueOf(inputChannels)
                                             + (CopyCh(rb, inputChannels) - 1 - ch) + 1]]
        ELSE rb.buffers[ch]]

\* push, the inner loop: buffers[ch][writePtr] = floatArray[i * inputChannels + ch]
PushStore(rb, floatArray, inputChannels, i) ==
    [ch \in Channels |->
        IF ch < CopyCh(rb, inputChannels)
        THEN [rb.buffers[ch] EXCEPT
                 ![rb.writePtr] = floatArray[i * ValueOf(inputChannels) + ch + 1]]
        ELSE rb.buffers[ch]]

\* push: writePtr = (writePtr + 1) % size
PushAdvanceWrite(rb) == (rb.writePtr + 1) % rb.size

\* (mutant) a full buffer drops the write's accounting: the read cursor stays
PushAccountNoOverwrite(rb) ==
    [ available |-> IF rb.available < rb.size THEN rb.available + 1 ELSE rb.available,
      readPtr   |-> rb.readPtr ]

\* (mutant) available is counted up on every write
PushAccountUnbounded(rb) ==
    [ available |-> rb.available + 1,
      readPtr   |-> rb.readPtr ]

\* push: if (available < size) available++; else readPtr = (readPtr + 1) % size
PushAccount(rb) ==
    IF rb.available < rb.size
    THEN [ available |-> rb.available + 1, readPtr |-> rb.readPtr ]
    ELSE [ available |-> rb.available, readPtr |-> (rb.readPtr + 1) % rb.size ]

\* push: one pass of the outer loop
PushFrame(rb, floatArray, inputChannels, i) ==
    [rb EXCEPT !.buffers   = PushStore(rb, floatArray, inputChannels, i),
               !.writePtr  = PushAdvanceWrite(rb),
               !.available = PushAccount(rb).available,
               !.readPtr   = PushAccount(rb).readPtr]

RECURSIVE PushFrom(_, _, _, _)
PushFrom(rb, floatArray, inputChannels, i) ==
    IF PushLoopTest(floatArray, inputChannels, i)
    THEN PushFrom(PushFrame(rb, floatArray, inputChannels, i), floatArray, inputChannels, i + 1)
    ELSE rb

\* RingBuffer.push(floatArray, inputChannels)
Push(rb, floatArray, inputChannels) == PushFrom(rb, floatArray, inputChannels, 0)

\* (mutant) only an empty buffer refuses
PopRefusesWhenEmpty(rb, count) == rb.available = 0 /\ count > 0

\* pop: the guard, if (this.available < count) return false
PopRefuses(rb, count) == rb.available < count

\* pop, the inner loop: outputBuffers[ch][i] = buffers[ch][readPtr]; a write
\* past the end of a typed array is dropped
PopCopy(rb, outputBuffers, i) ==
    [ch \in Channels |->
        IF i < Len(outputBuffers[ch])
        THEN [outputBuffers[ch] EXCEPT ![i + 1] = rb.buffers[ch][rb.readPtr]]
        ELSE outputBuffers[ch]]

\* pop: readPtr = (readPtr + 1) % size
PopAdvanceRead(rb) == (rb.readPtr + 1) % rb.size

RECURSIVE PopFrom(_, _, _, _)
PopFrom(rb, outputBuffers, count, i) ==
    IF i < count
    THEN PopFrom([rb EXCEPT !.readPtr = PopAdvanceRead(rb)],
                 PopCopy(rb, outputBuffers, i), count, i + 1)
    ELSE [rb |-> rb, out |-> outputBuffers]

\* pop: this.available -= count
PopAccount(rb, count) == rb.available - count

\* RingBuffer.pop(outputBuffers, count): the buffer after the call, the output
\* buffers after the call and the value returned
Pop(rb, outputBuffers, count) ==
    IF PopRefuses(rb, count)
    THEN [rb |-> rb, out |-> outputBuffers, ret |-> FALSE]
    ELSE LET done == PopFrom(rb, outputBuffers, count, 0)
         IN  [rb  |-> [done.rb EXCEPT !.available = PopAccount(rb, count)],
              out |-> done.out,
              ret |-> TRUE]

\* (mutant) clear that leaves the write cursor where it is
ClearKeepsWritePtr(rb) == [rb EXCEPT !.readPtr = 0, !.available = 0]

\* RingBuffer.clear()
Clear(rb) == [rb EXCEPT !.readPtr = 0, !.writePtr = 0, !.available = 0]

\* new Float32Array(n), one per channel (scheduleAudio's tempBuffers)
ZeroBuffers(n) == [ch \in Channels |-> [k \in 1 .. n |-> 0]]

\* no RingBuffer call made yet
NoOp == [op |-> "new", floatArray |-> <<>>, inputChannels |-> Undefined,
         count |-> 0, out |-> ZeroBuffers(0), ret |-> FALSE]

(***************************************************************************)
(* Store (js/store.js): the routing matrix                                 *)
(***************************************************************************)
\* Volumes and gains are in hundredths (100 is 1.0); times are in units of
\* 1/3000 s, in which a millisecond is 3 and a 1024-frame chunk at 48 kHz
\* is 64, so every time the scheduler computes is an integer.
\* the volume of a new Input or Output, and the direct gain as constructed: 1.0
DefaultVolume == 100
\* data.directBuffer as constructed: 0.1 s
DefaultDirectBuffer == 300

\* this.data and this.directRoutingSet as the constructor leaves them
NewStore ==
    [inputs |-> <<>>, outputs |-> <<>>, directRoutingSet |-> {},
     directGain |-> DefaultVolume, directMuted |-> FALSE,
     directBuffer |-> DefaultDirectBuffer]

\* list.map(o => o.id), as a set
IdsOf(list) == {list[k].id : k \in DOMAIN list}

\* list.findIndex(o => o.id === id), counted from 1; 0 for JavaScript's -1
FindIndex(list, id) ==
    IF \E k \in DOMAIN list : list[k].id = id
    THEN CHOOSE k \in DOMAIN list :
             /\ list[k].id = id
             /\ \A j \in 1 .. k - 1 : list[j].id # id
    ELSE 0

\* array.includes(x)
Includes(array, x) == \E k \in DOMAIN array : array[k] = x

\* (mutant) splice(idx) without its count: everything from idx on goes
SpliceToEnd(array, idx) == SubSeq(array, 1, idx - 1)

\* array.splice(idx, 1), idx counted from 1
Splice(array, idx) == SubSeq(array, 1, idx - 1) \o SubSeq(array, idx + 1, Len(array))

\* array.filter(rId => rId !== id)
FilterOut(array, id) == SelectSeq(array, LAMBDA rId : rId # id)

\* the while loop of getAvailableId: the first id from `id` on not in existingIds
RECURSIVE FirstFree(_, _)
FirstFree(existingIds, id) ==
    IF id \in existingIds THEN FirstFree(existingIds, id + 1) ELSE id

\* (mutant) the id after the last one of the list
GetAvailableIdAfterLast(list) == Len(list) + 1

\* Store.getAvailableId(list)
GetAvailableId(list) == FirstFree(IdsOf(list), 1)

\* list.sort((a, b) => a.id - b.id): a stable sort by id
RECURSIVE SortById(_)
SortById(list) ==
    IF list = <<>> THEN <<>>
    ELSE LET front == SortById(SubSeq(list, 1, Len(list) - 1))
             e     == list[Len(list)]
             k     == Cardinality({i \in DOMAIN front : front[i].id <= e.id})
         IN  SubSeq(front, 1, k) \o <<e>> \o SubSeq(front, k + 1, Len(front))

\* the object addInput pushes (deviceId left out: nothing modelled reads it)
NewInput(id) == [id |-> id, volume |-> DefaultVolume, isMuted |-> FALSE, routing |-> <<>>]

\* the object addOutput pushes (selectedDeviceId and eqValues left out)
NewOutput(id) == [id |-> id, volume |-> DefaultVolume, isMuted |-> FALSE]

\* what localStorage holds under a key that was written (Undefined otherwise)
Item(v) == {v}

\* Store.save(): what it writes to localStorage
Save(st) ==
    Item([inputs |-> st.inputs, directGain |-> st.directGain,
          directMuted |-> st.directMuted, directRouting |-> st.directRoutingSet,
          directBuffer |-> st.directBuffer, outputs |-> st.outputs])

\* Every Store method below takes the store and the saved settings and gives
\* the store and the saved settings after the call, what the call returned
\* (Undefined when the method has no return statement on the path taken) and
\* whether it emitted 'routing-changed'.
Returned(st, sv, ret, emitted) ==
    [store |-> st, saved |-> sv, ret |-> ret, emitted |-> emitted]

\* Store.addInput()
AddInput(st, sv) ==
    LET id  == GetAvailableId(st.inputs)
        new == [st EXCEPT !.inputs = SortById(Append(@, NewInput(id)))]
    IN  Returned(new, Save(new), Num(id), FALSE)

\* Store.removeInput(id)
RemoveInput(st, sv, id) ==
    LET idx == FindIndex(st.inputs, id)
        new == [st EXCEPT !.inputs = Splice(@, idx)]
    IN  IF idx # 0 THEN Returned(new, Save(new), Undefined, FALSE)
                   ELSE Returned(st, sv, Undefined, FALSE)

\* Store.addOutput()
AddOutput(st, sv) ==
    LET id  == GetAvailableId(st.outputs)
        new == [st EXCEPT !.outputs = SortById(Append(@, NewOutput(id)))]
    IN  Returned(new, Save(new), Num(id), FALSE)

\* (mutant) removeOutput without the sweep over the Inputs' routing
RemoveOutputNoSweep(st, sv, id) ==
    LET idx == FindIndex(st.outputs, id)
        new == [st EXCEPT !.outputs = Splice(@, idx),
                          !.directRoutingSet = @ \ {id}]
    IN  IF idx # 0 THEN Returned(new, Save(new), Undefined, FALSE)
                   ELSE Returned(st, sv, Undefined, FALSE)

\* Store.removeOutput(id)
RemoveOutput(st, sv, id) ==
    LET idx == FindIndex(st.outputs, id)
        new == [st EXCEPT !.outputs = Splice(@, idx),
                          !.directRoutingSet = @ \ {id},
                          !.inputs = [k \in DOMAIN st.inputs |->
                                         [st.inputs[k] EXCEPT !.routing = FilterOut(@, id)]]]
    IN  IF idx # 0 THEN Returned(new, Save(new), Undefined, FALSE)
                   ELSE Returned(st, sv, Undefined, FALSE)

\* Store.toggleRouting(type, inputId, outputId); inputId is null for 'direct'
ToggleRouting(st, sv, type, inputId, outputId) ==
    LET k   == FindIndex(st.inputs, inputId)
        idx == IF k = 0 THEN 0
               ELSE IF Includes(st.inputs[k].routing, outputId)
                    THEN CHOOSE i \in DOMAIN st.inputs[k].routing :
                             /\ st.inputs[k].routing[i] = outputId
                             /\ \A j \in 1 .. i - 1 : st.inputs[k].routing[j] # outputId
                    ELSE 0
        new == IF type = "direct"
               THEN [st EXCEPT !.directRoutingSet =
                        IF outputId \in @ THEN @ \ {outputId} ELSE @ \cup {outputId}]
               ELSE IF k = 0 THEN st
               ELSE [st EXCEPT !.inputs[k].routing =
                        IF idx # 0 THEN Splice(@, idx) ELSE Append(@, outputId)]
    IN  Returned(new, Save(new), Undefined, TRUE)

\* Store.isRouted(type, inputId, outputId)
IsRouted(st, type, inputId, outputId) ==
    IF type = "direct" THEN outputId \in st.directRoutingSet
    ELSE LET k == FindIndex(st.inputs, inputId)
         IN  IF k # 0 THEN Includes(st.inputs[k].routing, outputId) ELSE FALSE

\* Store.load(): sv is what localStorage holds, Undefined when nothing was
\* saved. Settings in the current format (saved.inputs present) are taken as
\* they are; the migration of the old single-input format is left out.
Load(st, sv) ==
    IF sv = Undefined
    THEN LET a == AddInput(st, sv)
             b == AddOutput(a.store, a.saved)
             c == ToggleRouting(b.store, b.saved, "hardware", 1, 1)
         IN  ToggleRouting(c.store, c.saved, "direct", 0, 1)
    ELSE LET s == ValueOf(sv)
         IN  Returned([st EXCEPT !.inputs = s.inputs,
                                 !.directGain = s.directGain,
                                 !.directMuted = s.directMuted,
                                 !.directBuffer = s.directBuffer,
                                 !.directRoutingSet = s.directRouting,
                                 !.outputs = s.outputs],
                      sv, Undefined, FALSE)

(***************************************************************************)
(* AudioEngine (js/audio.js): the per-Output chains and their gains        *)
(***************************************************************************)
\* A gain node is modelled by the value its gain is heading for: what was
\* last given to gain.value or to setTargetAtTime.

\* AudioEngine.strips and hardwareInputs as constructed, and after stop()
NoStrips == [o \in {} |-> 0]

\* createStripContext(outputData): the chain it stores in this.strips, with a
\* tap at gain 0 for every open hardware input and for the direct input
NewStrip(hw, outputData) ==
    [hwInputGains  |-> [inputId \in hw |-> 0],
     directGain    |-> 0,
     masterVol     |-> IF outputData.isMuted THEN 0 ELSE outputData.volume,
     nextAudioTime |-> 0]

\* AudioEngine.createStripContext(outputData): this.strips afterwards
CreateStripContext(st, hw, outputData) ==
    [o \in DOMAIN st \cup {outputData.id} |->
        IF o = outputData.id THEN NewStrip(hw, outputData) ELSE st[o]]

\* AudioEngine.removeStripContext(id): this.strips afterwards
RemoveStripContext(st, id) == [o \in DOMAIN st \ {id} |-> st[o]]

\* (mutant) the tap's target without the routing test
HwTargetUnrouted(inputData, outputId) == inputData.volume

\* (mutant) the tap's target scaled by nothing the Input stores
HwTargetUnity(inputData, outputId) ==
    IF Includes(inputData.routing, outputId) THEN DefaultVolume ELSE 0

\* updateAllGains: the target of a hardware Input's tap on Output outputId
HwTarget(inputData, outputId) ==
    IF Includes(inputData.routing, outputId) THEN inputData.volume ELSE 0

\* (mutant) the direct tap's target without the mute flag
DirTargetNoMute(data, outputId) ==
    data.directGain * (IF outputId \in data.directRoutingSet THEN 1 ELSE 0)

\* updateAllGains: the target of the direct input's tap on Output outputId
DirTarget(data, outputId) ==
    LET dirRouteMult == IF outputId \in data.directRoutingSet THEN 1 ELSE 0
        dirMuteMult  == IF data.directMuted THEN 0 ELSE 1
    IN  data.directGain * dirRouteMult * dirMuteMult

\* (mutant) each tap's target taken as a step from where the tap stands
UpdateAllGainsRelative(st, data) ==
    [outputId \in DOMAIN st |->
        [st[outputId] EXCEPT
            !.hwInputGains = [inputId \in DOMAIN st[outputId].hwInputGains |->
                LET k == FindIndex(data.inputs, inputId)
                IN  IF k # 0 THEN st[outputId].hwInputGains[inputId]
                                      + HwTarget(data.inputs[k], outputId)
                             ELSE st[outputId].hwInputGains[inputId]],
            !.directGain = @ + DirTarget(data, outputId)]]

\* AudioEngine.updateAllGains(): this.strips afterwards
UpdateAllGains(st, data) ==
    [outputId \in DOMAIN st |->
        [st[outputId] EXCEPT
            !.hwInputGains = [inputId \in DOMAIN st[outputId].hwInputGains |->
                LET k == FindIndex(data.inputs, inputId)
                IN  IF k # 0 THEN HwTarget(data.inputs[k], outputId)
                             ELSE st[outputId].hwInputGains[inputId]],
            !.directGain = DirTarget(data, outputId)]]

\* AudioEngine.updateStripParams(id): this.strips afterwards
UpdateStripParams(st, data, id) ==
    LET k == FindIndex(data.outputs, id)
    IN  IF id \notin DOMAIN st \/ k = 0 THEN st
        ELSE [st EXCEPT ![id].masterVol =
                 IF data.outputs[k].isMuted THEN 0 ELSE data.outputs[k].volume]

(***************************************************************************)
(* AudioEngine.scheduleAudio (js/audio.js): the playout scheduler          *)
(***************************************************************************)
\* buffer.duration of a chunk: 1024 frames at 48000 Hz, in 1/3000 s
ChunkDuration == 64
\* ctx.createBuffer(2, CHUNK_SIZE, 48000): the rate every buffer is given
BufferSampleRate == 48000
\* 0.05 s, the floor of the target buffer
MinBuffer == 150
\* 0.1 s, the target buffer when data.directBuffer is 0
FallbackBuffer == 300
\* 0.5 s, up to which an underrun raises data.directBuffer
GrowLimit == 1500
\* 0.001 s, what an underrun raises data.directBuffer by
GrowStep == 3

Max(a, b) == IF a > b THEN a ELSE b

\* Math.max(store.data.directBuffer || 0.1, 0.05)
UserBufferSec(directBuffer) ==
    Max(IF directBuffer = 0 THEN FallbackBuffer ELSE directBuffer, MinBuffer)

\* (mutant) the underrun test taken at equality too
IsUnderrunOrEqual(nodes, currentTime) == nodes.nextAudioTime <= currentTime

\* scheduleAudio: nodes.nextAudioTime < ctx.currentTime
IsUnderrun(nodes, currentTime) == nodes.nextAudioTime < currentTime

\* scheduleAudio, one chain: where the chunk starts
StartTime(nodes, currentTime, userBufferSec) ==
    IF IsUnderrun(nodes, currentTime) THEN currentTime + userBufferSec
    ELSE nodes.nextAudioTime

\* scheduleAudio, one chain: data.directBuffer after the underrun test
Grown(nodes, currentTime, directBuffer) ==
    IF IsUnderrun(nodes, currentTime) /\ directBuffer < GrowLimit
    THEN directBuffer + GrowStep ELSE directBuffer

\* scheduleAudio, the body of strips.forEach for the chains in `ids`, in the
\* order of their ids: acc holds the strips, the Store and the sources
\* started so far (chain, clock, cursor before, start time, cursor after,
\* target buffer, samples, the buffer's sample rate)
RECURSIVE ScheduleOn(_, _, _, _, _)
ScheduleOn(acc, ids, clocks, userBufferSec, tempBuffers) ==
    IF ids = {} THEN acc
    ELSE LET o     == CHOOSE x \in ids : \A y \in ids : x <= y
             nodes == acc.strips[o]
             start == StartTime(nodes, clocks[o], userBufferSec)
             event == [output |-> o, now |-> clocks[o], before |-> nodes.nextAudioTime,
                       start |-> start, after |-> start + ChunkDuration,
                       userBufferSec |-> userBufferSec, buffer |-> tempBuffers,
                       sampleRate |-> BufferSampleRate]
         IN  ScheduleOn(
                 [strips |-> [acc.strips EXCEPT ![o].nextAudioTime = start + ChunkDuration],
                  data   |-> [acc.data EXCEPT !.directBuffer =
                                 Grown(nodes, clocks[o], @)],
                  rb     |-> acc.rb,
                  pops   |-> acc.pops,
                  events |-> Append(acc.events, event)],
                 ids \ {o}, clocks, userBufferSec, tempBuffers)

\* (mutant) the loop test without the equality
HasChunkStrict(rb) == rb.available > ChunkSize

\* scheduleAudio, the loop test: this.ringBuffer.available >= CHUNK_SIZE
HasChunk(rb) == rb.available >= ChunkSize

\* (mutant) only the first chain is given the chunk
TargetsFirst(sn) == {o \in DOMAIN sn : \A p \in DOMAIN sn : o <= p}

\* scheduleAudio: the chains this.strips.forEach visits
Targets(sn) == DOMAIN sn

\* scheduleAudio, the while loop: a chunk is popped and given to every chain
\* as long as the ring buffer holds one
RECURSIVE ScheduleLoop(_, _, _)
ScheduleLoop(acc, clocks, userBufferSec) ==
    IF HasChunk(acc.rb)
    THEN LET p == Pop(acc.rb, ZeroBuffers(ChunkSize), ChunkSize)
         IN  ScheduleLoop(ScheduleOn([acc EXCEPT !.rb = p.rb,
                                                 !.pops = Append(@, p.ret)],
                                     Targets(acc.strips), clocks, userBufferSec, p.out),
                          clocks, userBufferSec)
    ELSE acc

\* AudioEngine.scheduleAudio(): the ring buffer, the strips and the Store
\* afterwards, what its pops returned and the sources it started
ScheduleAudio(running, rb, sn, data, clocks) ==
    LET acc == [strips |-> sn, data |-> data, rb |-> rb, pops |-> <<>>, events |-> <<>>]
    IN  IF ~running THEN acc
        ELSE ScheduleLoop(acc, clocks, UserBufferSec(data.directBuffer))

\* the loop of start() over store.data.outputs, from output number k on
RECURSIVE CreateStrips(_, _, _, _)
CreateStrips(st, hw, outputs, k) ==
    IF k > Len(outputs) THEN st
    ELSE CreateStrips(CreateStripContext(st, hw, outputs[k]), hw, outputs, k + 1)

\* no Store or engine call made yet. Of a call the record keeps its name, the
\* id removeOutput was given, what it returned, whether it emitted
\* 'routing-changed', whether the ids it was given named live entities,
\* whether updateAllGains was the last thing to touch the chains, what
\* scheduleAudio's pops returned and the sources it started, and of a call of
\* start() that came to its end the Inputs whose device it failed to open,
\* whether it began on an engine at rest and nothing else ran before its
\* end, and whether it ended in its catch.
NoCall == [op |-> "none", id |-> 0,
           ret |-> Undefined, emitted |-> FALSE, known |-> TRUE,
           recomputed |-> FALSE, pops |-> <<>>, events |-> <<>>,
           failed |-> {}, alone |-> FALSE, thrown |-> FALSE]

\* no timer set, no start() in flight
AsyncIdle ==
    /\ schedulerInterval = 0
    /\ intervals = {}
    /\ starts = <<>>

\* the Store and the engine as constructed
MixIdle ==
    /\ store = NewStore
    /\ saved = Undefined
    /\ strips = NoStrips
    /\ hardwareInputs = {}
    /\ now = NoStrips
    /\ lastCall = NoCall
    /\ AsyncIdle

(***************************************************************************)
(* DirectServer (js/ipc.js) and AudioEngine.processDirectAudio             *)
(***************************************************************************)
\* 'UXD1'
Magic == <<85, 88, 68, 49>>
\* the header: 4 bytes of magic, 4 bytes of sample rate
HeaderLen == 8
MagicLen == 4
\* one interleaved stereo frame of 32-bit floats
FrameBytes == 8
FloatBytes == 4
\* DirectServer.sampleRate as constructed
DefaultSampleRate == 44100

\* buf.readUInt32LE(offset)
ReadUInt32LE(buf, offset) ==
    buf[offset + 1] + 256 * buf[offset + 2] + 65536 * buf[offset + 3]
        + 16777216 * buf[offset + 4]

\* new Float32Array(buffer.buffer, buffer.byteOffset, buffer.byteLength / 4): the
\* same bytes seen as 32-bit floats. A float is modelled by its bit pattern,
\* the little-endian value of its four bytes.
ToFloat32Array(buffer) ==
    [k \in 1 .. Len(buffer) \div FloatBytes |-> ReadUInt32LE(buffer, FloatBytes * (k - 1))]

\* AudioEngine.processDirectAudio(floatArray, sampleRate, channels): the ring
\* buffer after the call
ProcessDirectAudio(rb, running, floatArray, rate, channels) ==
    IF ~running THEN rb ELSE Push(rb, floatArray, channels)

\* (mutant) the length rounded to the nearest frame
AlignedLenNearest(buffer) == ((Len(buffer) + FloatBytes) \div FrameBytes) * FrameBytes

\* handleAudioData: Math.floor(buffer.length / 8) * 8
AlignedLen(buffer) == (Len(buffer) \div FrameBytes) * FrameBytes

\* handleAudioData: the 8-byte alignment
Align(buffer) ==
    IF Len(buffer) % FrameBytes # 0 THEN SliceTo(buffer, AlignedLen(buffer)) ELSE buffer

\* DirectServer.handleAudioData(buffer): whether processDirectAudio is called,
\* the floatArray it is given, and the ring buffer afterwards. The call passes
\* two arguments, floatArray and this.sampleRate: channels is undefined.
HandleAudioData(buffer, rate, running, rb) ==
    LET aligned == Align(buffer) IN
    IF Len(aligned) = 0
    THEN [called |-> FALSE, floats |-> <<>>, rb |-> rb]
    ELSE [called |-> TRUE,
          floats |-> ToFloat32Array(aligned),
          rb     |-> ProcessDirectAudio(rb, running, ToFloat32Array(aligned), rate, Undefined)]

\* handleHandshake: the accumulation, headerBuffer = concat; over the cap, slice(-cap)
Accumulate(hb, buffer) ==
    IF Len(hb \o buffer) > HeaderCap THEN SliceLast(hb \o buffer, HeaderCap) ELSE hb \o buffer

\* handleHandshake: magic === 'UXD1'
MagicOk(hb) == SliceTo(hb, MagicLen) = Magic

\* reportStatus(connected, rate)
Report(connected, rate) == [connected |-> connected, rate |-> rate]

\* DirectServer.handleHandshake(buffer, socket): the fields after the call,
\* whether the socket was destroyed, and what went on to handleAudioData
HandleHandshake(buffer, running, rb) ==
    LET hb == Accumulate(headerBuffer, buffer)
        nothing == [called |-> FALSE, floats |-> <<>>, rb |-> rb]
    IN
    IF Len(hb) >= HeaderLen
    THEN IF MagicOk(hb)
         THEN LET rate      == ReadUInt32LE(hb, MagicLen)
                  remaining == SliceFrom(hb, HeaderLen)
              IN  [ isHeaderReceived |-> TRUE,
                    headerBuffer     |-> <<>>,
                    sampleRate       |-> rate,
                    status           |-> Report(TRUE, Num(rate)),
                    destroyed        |-> FALSE,
                    handed           |-> remaining,
                    audio            |-> IF Len(remaining) > 0
                                         THEN HandleAudioData(remaining, rate, running, rb)
                                         ELSE nothing ]
         ELSE [ isHeaderReceived |-> isHeaderReceived,
                headerBuffer     |-> <<>>,
                sampleRate       |-> sampleRate,
                status           |-> status,
                destroyed        |-> TRUE,
                handed           |-> <<>>,
                audio            |-> nothing ]
    ELSE [ isHeaderReceived |-> isHeaderReceived,
           headerBuffer     |-> hb,
           sampleRate       |-> sampleRate,
           status           |-> status,
           destroyed        |-> FALSE,
           handed           |-> <<>>,
           audio            |-> nothing ]

(***************************************************************************)
(* Senders                                                                 *)
(***************************************************************************)
\* audio byte number k of a stream is k: every float differs with its place
AudioBytes(n) == [k \in 1 .. n |-> k]
\* 48000 = 0x0000BB80 and 44100 = 0x0000AC44, little-endian
Rate48000 == <<128, 187, 0, 0>>
Rate44100 == <<68, 172, 0, 0>>
\* enough audio for a first chunk that exceeds the cap with the header in it
AudioLen == HeaderCap + FrameBytes

\* what a sender writes after connecting:
\*   a valid header at 48000 Hz or 44100 Hz, then audio;
\*   'XXXX' where the magic belongs, then a rate and audio;
\*   eight bytes of something else, then what would be a valid stream
SenderStreams ==
    [ rate48000 |-> Magic \o Rate48000 \o AudioBytes(AudioLen),
      rate44100 |-> Magic \o Rate44100 \o AudioBytes(AudioLen),
      badMagic  |-> <<88, 88, 88, 88>> \o Rate48000 \o AudioBytes(AudioLen),
      preceded  |-> <<0, 0, 0, 0, 0, 0, 0, 0>> \o Magic \o Rate48000
                       \o AudioBytes(HeaderCap - HeaderLen) ]
Senders == DOMAIN SenderStreams

NoData == [kind |-> "none", chunk |-> <<>>, offset |-> 0, handed |-> <<>>,
           called |-> FALSE, floats |-> <<>>]

\* the DirectServer and the engine as constructed, no connection yet
LinkIdle ==
    /\ isRunning = FALSE
    /\ socket = 0
    /\ socketState = "none"
    /\ isHeaderReceived = FALSE
    /\ headerBuffer = <<>>
    /\ sampleRate = DefaultSampleRate
    /\ status = Report(FALSE, Undefined)
    /\ wire = <<>>
    /\ conn = [n |-> 0, sender |-> "rate48000", received |-> <<>>, overCap |-> FALSE,
               decoded |-> FALSE, previous |-> "none"]
    /\ lastData = NoData
    /\ sockets = <<>>

linkVars == <<isRunning, socket, socketState, isHeaderReceived, headerBuffer,
              sampleRate, status, wire, conn, lastData, sockets>>
ringVars == <<lastOp, produced>>

\* (mutant) the connection callback without the reset of the handshake state
AcceptKeepsState ==
    /\ socketState # "open"
    /\ conn.n < MaxConns
    /\ \E sender \in Senders :
          /\ wire' = SenderStreams[sender]
          /\ conn' = [n |-> conn.n + 1, sender |-> sender, received |-> <<>>,
                      overCap |-> FALSE, decoded |-> FALSE, previous |-> socketState]
    /\ socket' = conn.n + 1
    /\ socketState' = "open"
    /\ status' = Report(FALSE, Undefined)
    /\ lastData' = NoData
    /\ UNCHANGED <<isHeaderReceived, headerBuffer, sampleRate, isRunning, ringBuffer, ringVars, sockets, mixVars>>

\* the server's connection callback: a sender connects when no connection is open
Accept ==
    /\ socketState # "open"
    /\ conn.n < MaxConns
    /\ \E sender \in Senders :
          /\ wire' = SenderStreams[sender]
          /\ conn' = [n |-> conn.n + 1, sender |-> sender, received |-> <<>>,
                      overCap |-> FALSE, decoded |-> FALSE, previous |-> socketState]
    /\ socket' = conn.n + 1
    /\ socketState' = "open"
    /\ isHeaderReceived' = FALSE
    /\ headerBuffer' = <<>>
    /\ status' = Report(FALSE, Undefined)
    /\ lastData' = NoData
    /\ UNCHANGED <<sampleRate, isRunning, ringBuffer, ringVars, sockets, mixVars>>

\* socket.on('data'), before the handshake: the next n bytes arrive as one chunk
DataHandshake ==
    /\ socketState = "open"
    /\ ~isHeaderReceived
    /\ \E n \in 1 .. Len(wire) :
          LET chunk == SliceTo(wire, n)
              r     == HandleHandshake(chunk, isRunning, ringBuffer)
          IN  /\ wire' = SliceFrom(wire, n)
              /\ isHeaderReceived' = r.isHeaderReceived
              /\ headerBuffer' = r.headerBuffer
              /\ sampleRate' = r.sampleRate
              /\ status' = r.status
              /\ socketState' = IF r.destroyed THEN "destroyed" ELSE socketState
              /\ ringBuffer' = r.audio.rb
              /\ conn' = [conn EXCEPT
                             !.received = @ \o chunk,
                             !.overCap  = @ \/ Len(headerBuffer) + n > HeaderCap,
                             !.decoded  = @ \/ r.audio.called]
              /\ lastData' = [kind |-> "handshake", chunk |-> chunk,
                              offset |-> Len(conn.received), handed |-> r.handed,
                              called |-> r.audio.called, floats |-> r.audio.floats]
    /\ UNCHANGED <<socket, isRunning, ringVars, sockets, mixVars>>

\* socket.on('data'), streaming
DataAudio ==
    /\ socketState = "open"
    /\ isHeaderReceived
    /\ \E n \in 1 .. Len(wire) :
          LET chunk == SliceTo(wire, n)
              r     == HandleAudioData(chunk, sampleRate, isRunning, ringBuffer)
          IN  /\ wire' = SliceFrom(wire, n)
              /\ ringBuffer' = r.rb
              /\ conn' = [conn EXCEPT !.received = @ \o chunk,
                                      !.decoded  = @ \/ r.called]
              /\ lastData' = [kind |-> "audio", chunk |-> chunk,
                              offset |-> Len(conn.received), handed |-> chunk,
                              called |-> r.called, floats |-> r.floats]
    /\ UNCHANGED <<socket, socketState, isHeaderReceived, headerBuffer, sampleRate,
                   status, isRunning, ringVars, sockets, mixVars>>

\* socket.on('end'): the sender closes, having written what was delivered
End ==
    /\ socketState = "open"
    /\ status' = Report(FALSE, Undefined)
    /\ socket' = 0
    /\ socketState' = "ended"
    /\ wire' = <<>>
    /\ lastData' = NoData
    /\ UNCHANGED <<isHeaderReceived, headerBuffer, sampleRate, conn, isRunning,
                   ringBuffer, ringVars, sockets, mixVars>>

\* socket.on('error'): the connection breaks
SocketError ==
    /\ socketState = "open"
    /\ status' = Report(FALSE, Undefined)
    /\ socketState' = "errored"
    /\ wire' = <<>>
    /\ lastData' = NoData
    /\ UNCHANGED <<socket, isHeaderReceived, headerBuffer, sampleRate, conn, isRunning,
                   ringBuffer, ringVars, sockets, mixVars>>

\* AudioEngine.start(), as far as the direct path sees it: isRunning
EngineStart ==
    /\ ~isRunning
    /\ isRunning' = TRUE
    /\ lastData' = NoData
    /\ UNCHANGED <<socket, socketState, isHeaderReceived, headerBuffer, sampleRate,
                   status, wire, conn, ringBuffer, ringVars, sockets, mixVars>>

\* AudioEngine.stop(), as far as the direct path sees it: isRunning; the ring
\* buffer is left as it is
EngineStop ==
    /\ isRunning
    /\ isRunning' = FALSE
    /\ lastData' = NoData
    /\ UNCHANGED <<socket, socketState, isHeaderReceived, headerBuffer, sampleRate,
                   status, wire, conn, ringBuffer, ringVars, sockets, mixVars>>

Init ==
    /\ ringBuffer = NewRingBuffer(RingSize)
    /\ lastOp = NoOp
    /\ produced = 0
    /\ LinkIdle
    /\ MixIdle

Next == Accept \/ DataHandshake \/ DataAudio \/ End \/ SocketError \/ EngineStart \/ EngineStop

Spec == Init /\ [][Next]_vars

(***************************************************************************)
(* SpecRing: the RingBuffer class under push, pop and clear                *)
(***************************************************************************)
\* The producer numbers the frames it pushes, round and round through
\* FrameNumberSet: frame number s carries the sample 2s + 1 on channel 0 and
\* 2s + 2 on channel 1 (never 0, the value of an unwritten slot). push and
\* pop never look at a sample's value, so frames that differ from their
\* neighbours are the input that tells most: a frame out of order, lost,
\* repeated or with its channels crossed shows.
FrameNumberSet == {0, 1, 2}
FrameNumbers == Cardinality(FrameNumberSet)
SampleOf(s, ch) == 2 * (s % FrameNumbers) + ch + 1

\* the interleaved array of n frames on inputChannels channels, from frame
\* number first on
FramesArray(first, n, inputChannels) ==
    [k \in 1 .. n * inputChannels |->
        SampleOf(first + (k - 1) \div inputChannels, (k - 1) % inputChannels)]

\* the channel count a caller gives: 2 (the wire format), or nothing
ChannelArgs == {Num(2), Undefined}

InitRing ==
    /\ ringBuffer = NewRingBuffer(RingSize)
    /\ lastOp = NoOp
    /\ produced = 0
    /\ LinkIdle
    /\ MixIdle

\* one push can exceed the capacity: up to RingSize + 1 frames
RingPush ==
    \E n \in 0 .. RingSize + 1, inputChannels \in ChannelArgs :
        LET floatArray == FramesArray(produced, n,
                              IF IsNumber(inputChannels) THEN ValueOf(inputChannels) ELSE 2)
        IN  /\ ringBuffer' = Push(ringBuffer, floatArray, inputChannels)
            /\ lastOp' = [NoOp EXCEPT !.op = "push", !.floatArray = floatArray,
                                      !.inputChannels = inputChannels]
            /\ produced' = (produced + n) % FrameNumbers
            /\ UNCHANGED <<linkVars, mixVars>>

RingPop ==
    \E count \in 0 .. RingSize + 1 :
        LET r == Pop(ringBuffer, ZeroBuffers(count), count)
        IN  /\ ringBuffer' = r.rb
            /\ lastOp' = [NoOp EXCEPT !.op = "pop", !.count = count,
                                      !.out = r.out, !.ret = r.ret]
            /\ UNCHANGED <<produced, linkVars, mixVars>>

RingClear ==
    /\ ringBuffer' = Clear(ringBuffer)
    /\ lastOp' = [NoOp EXCEPT !.op = "clear"]
    /\ UNCHANGED <<produced, linkVars, mixVars>>

NextRing == RingPush \/ RingPop \/ RingClear

SpecRing == InitRing /\ [][NextRing]_vars

(***************************************************************************)
(* Claims about the ring buffer (checked under SpecRing)                   *)
(***************************************************************************)
\* what popping every queued frame returns, per channel, oldest first
Drain(rb) == Pop(rb, ZeroBuffers(rb.available), rb.available).out

\* the samples of channel ch in an array interleaved on inputChannels channels
ChannelOf(floatArray, inputChannels, ch) ==
    [k \in 1 .. Len(floatArray) \div inputChannels |->
        floatArray[inputChannels * (k - 1) + ch + 1]]

\* the step is a push with a channel count; the channels it carries
IsPush == lastOp'.op = "push" /\ IsNumber(lastOp'.inputChannels)
PushedChannels == {ch \in Channels : ch < ValueOf(lastOp'.inputChannels)}
PushedFrames == Len(lastOp'.floatArray) \div ValueOf(lastOp'.inputChannels)
PushedOn(ch) == ChannelOf(lastOp'.floatArray, ValueOf(lastOp'.inputChannels), ch)

\* C1: round trip. A push of n frames that fits (available + n <= size)
\* queues exactly those frames, on every channel pushed, behind the frames
\* queued before; a successful pop of count frames returns the count oldest
\* queued frames in order and leaves the rest queued. So the pushed samples
\* come back unchanged and in push order, also across a wrap of the cursors.
RoundTrip ==
    /\ [][ (IsPush /\ ringBuffer.available + PushedFrames <= ringBuffer.size)
           => /\ ringBuffer'.available = ringBuffer.available + PushedFrames
              /\ \A ch \in PushedChannels :
                    Drain(ringBuffer')[ch] = Drain(ringBuffer)[ch] \o PushedOn(ch) ]_vars
    /\ [][ (lastOp'.op = "pop" /\ lastOp'.ret)
           => \A ch \in Channels :
                 /\ lastOp'.out[ch] = SliceTo(Drain(ringBuffer)[ch], lastOp'.count)
                 /\ Drain(ringBuffer')[ch]
                      = SliceFrom(Drain(ringBuffer)[ch], lastOp'.count) ]_vars

\* a pop that read across the end of storage and returned two stereo frames
\* pushed one after the other
RoundTripWitness ==
    /\ lastOp.op = "pop" /\ lastOp.ret
    /\ lastOp.count = 2
    /\ ringBuffer.readPtr = 1
    /\ \E s \in FrameNumberSet :
          /\ lastOp.out[0] = <<SampleOf(s, 0), SampleOf(s + 1, 0)>>
          /\ lastOp.out[1] = <<SampleOf(s, 1), SampleOf(s + 1, 1)>>

\* C2: overflow. A push of n frames with available + n > size leaves the
\* buffer full, holding on every channel pushed the newest size frames of
\* (queued frames followed by pushed frames), in order: the oldest frames are
\* the ones overwritten.
Overflow ==
    [][ (IsPush /\ ringBuffer.available + PushedFrames > ringBuffer.size)
        => /\ ringBuffer'.available = ringBuffer.size
           /\ \A ch \in PushedChannels :
                 Drain(ringBuffer')[ch]
                   = SliceLast(Drain(ringBuffer)[ch] \o PushedOn(ch), ringBuffer.size) ]_vars

\* a stereo push of more frames than the capacity, into a buffer that held
\* frames: the frames left are the last size frames pushed
OverflowWitness ==
    /\ lastOp.op = "push" /\ lastOp.inputChannels = Num(2)
    /\ Len(lastOp.floatArray) \div 2 > ringBuffer.size
    /\ ringBuffer.available = ringBuffer.size
    /\ ringBuffer.readPtr # 0
    /\ Drain(ringBuffer)[0] = SliceLast(ChannelOf(lastOp.floatArray, 2, 0), ringBuffer.size)
    /\ Drain(ringBuffer)[1] = SliceLast(ChannelOf(lastOp.floatArray, 2, 1), ringBuffer.size)

\* C3: 0 <= availableFrames <= capacity in every reachable state.
AvailableInRange == 0 <= ringBuffer.available /\ ringBuffer.available <= ringBuffer.size

\* a full buffer that has just taken a push
AvailableInRangeWitness ==
    /\ lastOp.op = "push" /\ lastOp.floatArray # <<>> /\ lastOp.inputChannels = Num(2)
    /\ ringBuffer.available = ringBuffer.size
    /\ ringBuffer.readPtr = ringBuffer.size - 1

\* C4: pop(outBuffers, count) with availableFrames < count returns false and
\* leaves cursors, availableFrames, stored samples and output buffers alone.
PopShort ==
    [][ (lastOp'.op = "pop" /\ ringBuffer.available < lastOp'.count)
        => /\ lastOp'.ret = FALSE
           /\ ringBuffer' = ringBuffer
           /\ lastOp'.out = ZeroBuffers(lastOp'.count) ]_vars

\* a refused pop on a buffer that holds frames, though fewer than asked for
PopShortWitness ==
    /\ lastOp.op = "pop" /\ lastOp.ret = FALSE
    /\ ringBuffer.available > 0
    /\ lastOp.count > ringBuffer.available
    /\ ringBuffer.buffers[0][ringBuffer.readPtr] # 0

(***************************************************************************)
(* Claims about the decoder (checked under Spec)                           *)
(***************************************************************************)
\* what the sender of the latest connection declared, and what it wrote
DeclaredRate == IF conn.sender = "rate44100" THEN 44100 ELSE 48000
Written == SenderStreams[conn.sender]
SentMagic == SliceTo(conn.received, MagicLen) = <<85, 88, 68, 49>>
SenderLeft == socketState \in {"ended", "errored"}

\* C5: handshake success. On a connection on which 8 bytes or more have
\* arrived, the first 4 being "UXD1", and which the sender has not left, the
\* decoder is STREAMING, has published the little-endian rate of bytes 4-7
\* and has reported connected with that rate.
HandshakeSucceeds ==
    (conn.n > 0 /\ Len(conn.received) >= 8 /\ SentMagic /\ ~SenderLeft)
    => /\ socketState = "open"
       /\ isHeaderReceived
       /\ sampleRate = DeclaredRate
       /\ status = [connected |-> TRUE, rate |-> {DeclaredRate}]

\* C6: bad magic. On a connection whose first 4 bytes are not "UXD1" the
\* decoder is never STREAMING and nothing is decoded as audio, and once 8
\* bytes have arrived the connection is no longer open.
BadMagicRejected ==
    (conn.n > 0 /\ Len(conn.received) >= 4 /\ ~SentMagic)
    => /\ ~isHeaderReceived
       /\ ~conn.decoded
       /\ ringBuffer.available = 0
       /\ (Len(conn.received) >= 8 => socketState # "open")

\* C7: header remainder. After a first chunk of 8 bytes or more that begins
\* with a valid header, the decoder is STREAMING and exactly the bytes after
\* the first 8 have gone to the streaming path.
HeaderRemainder ==
    (/\ lastData.kind = "handshake"
     /\ lastData.offset = 0
     /\ Len(lastData.chunk) >= 8
     /\ SliceTo(lastData.chunk, 4) = <<85, 88, 68, 49>>)
    => /\ isHeaderReceived
       /\ sampleRate = DeclaredRate
       /\ lastData.handed = SliceFrom(lastData.chunk, 8)

\* the float at byte offset o of what the sender wrote
WrittenFloat(o) ==
    Written[o + 1] + 256 * Written[o + 2] + 65536 * Written[o + 3] + 16777216 * Written[o + 4]

\* C8: streaming truncation. A chunk of n bytes received in STREAMING, which
\* starts at offset o of the sender's stream, is decoded into floor(n / 8)
\* frames: the floats at o, o + 4, ... of the stream, 2 * floor(n / 8) of them;
\* with n < 8 nothing is decoded. Nothing of the chunk is kept for the next.
StreamingTruncation ==
    lastData.kind = "audio"
    => LET n == Len(lastData.chunk) IN
       /\ lastData.called = (n >= 8)
       /\ lastData.floats =
             [j \in 1 .. 2 * (n \div 8) |-> WrittenFloat(lastData.offset + 4 * (j - 1))]
       /\ headerBuffer = <<>>

\* a chunk of 13 bytes decoded into one frame, in a stream whose chunks so far
\* were not all whole frames
StreamingTruncationWitness ==
    /\ lastData.kind = "audio"
    /\ Len(lastData.chunk) = 13
    /\ Len(lastData.floats) = 2
    /\ lastData.offset % 8 # 0

\* C9: decoded audio reaches the jitter buffer. A data event that hands
\* floats to the running engine makes availableFrames grow by the frames
\* decoded, up to the capacity.
DecodedFramesPushed ==
    [][ (lastData'.called /\ isRunning)
        => ringBuffer'.available
             = Min(ringBuffer.available + Len(lastData'.floats) \div 2, ringBuffer.size) ]_vars

DecodedFrom == IF lastData.kind = "audio" THEN lastData.offset ELSE HeaderLen

\* C31: frame alignment under arbitrary chunking. On a connection that opened
\* with a valid header, whose accumulation stayed within the cap, the floats
\* a data event hands to the engine are whole frames of the sender's stream:
\* they begin a multiple of 8 bytes after the header and are the stream's
\* floats from there on, left sample first.
FrameAlignment ==
    (/\ lastData.called
     /\ conn.sender \in {"rate48000", "rate44100"}
     /\ ~conn.overCap)
    => /\ (DecodedFrom - HeaderLen) % FrameBytes = 0
       /\ \A j \in DOMAIN lastData.floats :
             lastData.floats[j] = WrittenFloat(DecodedFrom + FloatBytes * (j - 1))

(***************************************************************************)
(* SpecStore: the Store driven through its methods                         *)
(***************************************************************************)
\* the ids a caller passes: those a live entity can have, and one more
InputIdArgs == 1 .. MaxInputs + 1
OutputIdArgs == 1 .. MaxOutputs

storeOnly == <<strips, hardwareInputs, now, isRunning, ringBuffer, lastOp, produced,
               socket, socketState, isHeaderReceived, headerBuffer, sampleRate,
               status, wire, conn, lastData, sockets, asyncVars>>

\* the window as app.js and ui.init() leave it with nothing saved: the Store
\* loaded, the engine not started
InitStore ==
    /\ ringBuffer = NewRingBuffer(RingSize)
    /\ lastOp = NoOp
    /\ produced = 0
    /\ LinkIdle
    /\ store = Load(NewStore, Undefined).store
    /\ saved = Load(NewStore, Undefined).saved
    /\ strips = NoStrips
    /\ hardwareInputs = {}
    /\ now = NoStrips
    /\ lastCall = NoCall
    /\ AsyncIdle

StoreAddInput ==
    /\ Len(store.inputs) < MaxInputs
    /\ LET r == AddInput(store, saved)
       IN  /\ store' = r.store
           /\ saved' = r.saved
           /\ lastCall' = [NoCall EXCEPT !.op = "addInput", !.ret = r.ret]
    /\ UNCHANGED storeOnly

StoreRemoveInput ==
    \E id \in InputIdArgs :
        LET r == RemoveInput(store, saved, id)
        IN  /\ store' = r.store
            /\ saved' = r.saved
            /\ lastCall' = [NoCall EXCEPT !.op = "removeInput", !.ret = r.ret,
                                          !.known = id \in IdsOf(store.inputs)]
            /\ UNCHANGED storeOnly

StoreAddOutput ==
    /\ Len(store.outputs) < MaxOutputs
    /\ LET r == AddOutput(store, saved)
       IN  /\ store' = r.store
           /\ saved' = r.saved
           /\ lastCall' = [NoCall EXCEPT !.op = "addOutput", !.ret = r.ret]
    /\ UNCHANGED storeOnly

StoreRemoveOutput ==
    \E id \in OutputIdArgs :
        LET r == RemoveOutput(store, saved, id)
        IN  /\ store' = r.store
            /\ saved' = r.saved
            /\ lastCall' = [NoCall EXCEPT !.op = "removeOutput", !.id = id,
                                          !.ret = r.ret,
                                          !.known = id \in IdsOf(store.outputs)]
            /\ UNCHANGED storeOnly

\* toggleRouting and the 'routing-changed' listener ui.init() registered,
\* which has the engine recompute its gains
StoreToggleRouting ==
    \E type \in {"hardware", "direct"}, inputId \in InputIdArgs, outputId \in OutputIdArgs :
        LET r == ToggleRouting(store, saved, type, IF type = "direct" THEN 0 ELSE inputId,
                               outputId)
        IN  /\ type = "direct" => inputId = 1
            /\ store' = r.store
            /\ saved' = r.saved
            /\ strips' = UpdateAllGains(strips, r.store)
            /\ lastCall' = [NoCall EXCEPT
                              !.op = "toggleRouting", !.ret = r.ret, !.emitted = r.emitted,
                              !.recomputed = r.emitted,
                              !.known = /\ outputId \in IdsOf(store.outputs)
                                        /\ type = "hardware" => inputId \in IdsOf(store.inputs)]
            /\ UNCHANGED <<hardwareInputs, now, isRunning, ringBuffer, lastOp, produced,
                           socket, socketState, isHeaderReceived, headerBuffer,
                           sampleRate, status, wire, conn, lastData, sockets, asyncVars>>

NextStore ==
    \/ StoreAddInput
    \/ StoreRemoveInput
    \/ StoreAddOutput
    \/ StoreRemoveOutput
    \/ StoreToggleRouting

SpecStore == InitStore /\ [][NextStore]_vars

(***************************************************************************)
(* Claims about the Store (checked under SpecStore)                        *)
(***************************************************************************)
\* no two entries of the list share an id
LiveIdsDistinct(list) == Cardinality(IdsOf(list)) = Len(list)

\* the smallest positive integer that is the id of no entry of the list
SmallestUnused(list) ==
    CHOOSE id \in 1 .. Len(list) + 1 :
        /\ id \notin IdsOf(list)
        /\ \A j \in 1 .. id - 1 : j \in IdsOf(list)

\* C14: through every sequence of adds and removes the live Inputs have
\* pairwise distinct ids and so have the live Outputs, and each add returns,
\* and gives the new entity, the smallest positive integer that no live
\* entity of that kind was using.
IdAllocation ==
    [][ /\ LiveIdsDistinct(store.inputs) /\ LiveIdsDistinct(store'.inputs)
        /\ LiveIdsDistinct(store.outputs) /\ LiveIdsDistinct(store'.outputs)
        /\ lastCall'.op = "addInput" =>
              /\ lastCall'.ret = Num(SmallestUnused(store.inputs))
              /\ IdsOf(store'.inputs) = IdsOf(store.inputs) \cup {SmallestUnused(store.inputs)}
        /\ lastCall'.op = "addOutput" =>
              /\ lastCall'.ret = Num(SmallestUnused(store.outputs))
              /\ IdsOf(store'.outputs) = IdsOf(store.outputs) \cup {SmallestUnused(store.outputs)}
      ]_vars

\* an id freed by a removal is handed out again while a larger id is live
IdAllocationWitness ==
    /\ lastCall.op = "addOutput"
    /\ lastCall.ret = Num(1)
    /\ IdsOf(store.outputs) = {1, 2}

\* C15: removeOutput(id) of a live Output deletes that Output, takes id out
\* of the direct-routing set and out of every Input's routing, and leaves the
\* other Outputs, the Inputs, their routes to other Outputs and the direct
\* settings as they were.
RemoveOutputSweeps ==
    [][ (lastCall'.op = "removeOutput" /\ lastCall'.known) =>
          LET id == lastCall'.id
          IN  /\ store'.outputs = SelectSeq(store.outputs, LAMBDA o : o.id # id)
              /\ Len(store'.outputs) = Len(store.outputs) - 1
              /\ store'.directRoutingSet = store.directRoutingSet \ {id}
              /\ Len(store'.inputs) = Len(store.inputs)
              /\ \A k \in DOMAIN store.inputs :
                    /\ store'.inputs[k].id = store.inputs[k].id
                    /\ store'.inputs[k].volume = store.inputs[k].volume
                    /\ store'.inputs[k].isMuted = store.inputs[k].isMuted
                    /\ ~Includes(store'.inputs[k].routing, id)
                    /\ store'.inputs[k].routing =
                           SelectSeq(store.inputs[k].routing, LAMBDA r : r # id)
              /\ store'.directGain = store.directGain
              /\ store'.directMuted = store.directMuted
              /\ store'.directBuffer = store.directBuffer
      ]_vars

\* Output 1 was removed while an Input and the direct input were routed to
\* Output 2 as well: those routes are still there
RemoveOutputSweepsWitness ==
    /\ lastCall.op = "removeOutput"
    /\ lastCall.known
    /\ lastCall.id = 1
    /\ IdsOf(store.outputs) = {2}
    /\ store.directRoutingSet = {2}
    /\ \E k \in DOMAIN store.inputs : store.inputs[k].routing = <<2>>

\* C16: whatever calls were made, every output id in an Input's routing and
\* every output id in the direct-routing set is the id of a live Output.
RoutesNameLiveOutputs ==
    /\ store.directRoutingSet \subseteq IdsOf(store.outputs)
    /\ \A k \in DOMAIN store.inputs :
          \A i \in DOMAIN store.inputs[k].routing :
              store.inputs[k].routing[i] \in IdsOf(store.outputs)

\* C20: removeInput, removeOutput, toggleRouting and the per-Output
\* parameter update called with an id that names no live Input / Output
\* leave the Store and every chain as they were, and return something that
\* tells the caller the id was unknown.
UnknownIdReported ==
    [][ (lastCall'.op \in {"removeInput", "removeOutput", "toggleRouting",
                           "updateStripParams"} /\ ~lastCall'.known) =>
          /\ store' = store
          /\ strips' = strips
          /\ lastCall'.ret # Undefined
      ]_vars

(***************************************************************************)
(* SpecGains: the window's controls (js/ui.js) driving the Store and the   *)
(* engine's chains                                                         *)
(***************************************************************************)
\* The window is let to hold the Inputs and Outputs with these ids, and its
\* faders to take these values.
RigInputIds == {1}
RigOutputIds == {1, 2}
VolumeValues == {50, 100}

\* Settings an earlier run left in localStorage: one Input at 0.5 with its
\* isMuted flag set, routed to the one Output. No control of this window sets
\* an Input's isMuted; the flag is part of every saved Input and load() takes
\* it as it finds it.
SavedMutedInput ==
    Item([inputs |-> <<[id |-> 1, volume |-> 50, isMuted |-> TRUE, routing |-> <<1>>]>>,
          directGain |-> DefaultVolume, directMuted |-> FALSE, directRouting |-> {1},
          directBuffer |-> DefaultDirectBuffer, outputs |-> <<NewOutput(1)>>])

gainsOnly == <<now, ringBuffer, lastOp, produced, socket, socketState, isHeaderReceived,
               headerBuffer, sampleRate, status, wire, conn, lastData, sockets, asyncVars>>

\* the window after ui.init(): the Store loaded, the engine not started
InitGains ==
    /\ ringBuffer = NewRingBuffer(RingSize)
    /\ lastOp = NoOp
    /\ produced = 0
    /\ LinkIdle
    /\ \E sv \in {Undefined, SavedMutedInput} :
          /\ store = Load(NewStore, sv).store
          /\ saved = Load(NewStore, sv).saved
    /\ strips = NoStrips
    /\ hardwareInputs = {}
    /\ now = NoStrips
    /\ lastCall = NoCall
    /\ AsyncIdle

\* what a handler of the window leaves in lastCall: whether updateAllGains
\* was the last thing to touch the chains
Handled(recomputed) == [NoCall EXCEPT !.op = "window", !.recomputed = recomputed]

\* AudioEngine.start(), taken in one step: opened are the Inputs whose
\* getUserMedia succeeds
Start(data, opened) ==
    UpdateAllGains(CreateStrips(NoStrips, opened, data.outputs, 1), data)

\* the start button
ClickStart ==
    /\ IF isRunning
       THEN /\ isRunning' = FALSE
            /\ strips' = NoStrips
            /\ hardwareInputs' = {}
            /\ lastCall' = Handled(FALSE)
       ELSE \E opened \in SUBSET IdsOf(store.inputs) :
            /\ isRunning' = TRUE
            /\ hardwareInputs' = opened
            /\ strips' = Start(store, opened)
            /\ lastCall' = Handled(TRUE)
    /\ UNCHANGED <<store, saved, gainsOnly>>

\* `if (audio.isRunning) { audio.stop(); audio.start(); }` after the Store
\* became data
Restart(data) ==
    IF isRunning
    THEN \E opened \in SUBSET IdsOf(data.inputs) :
            /\ hardwareInputs' = opened
            /\ strips' = Start(data, opened)
    ELSE UNCHANGED <<hardwareInputs, strips>>

\* UI.addNewInput
AddNewInput ==
    /\ GetAvailableId(store.inputs) \in RigInputIds
    /\ LET r == AddInput(store, saved)
       IN  /\ store' = r.store
           /\ saved' = r.saved
           /\ Restart(r.store)
    /\ lastCall' = Handled(isRunning)
    /\ UNCHANGED <<isRunning, gainsOnly>>

\* UI.removeInput, confirmed
ClickRemoveInput ==
    \E id \in IdsOf(store.inputs) :
        /\ LET r == RemoveInput(store, saved, id)
           IN  /\ store' = r.store
               /\ saved' = r.saved
               /\ Restart(r.store)
        /\ lastCall' = Handled(isRunning)
        /\ UNCHANGED <<isRunning, gainsOnly>>

\* the toggleRouting calls of addNewOutput, each followed by the listener's
\* updateAllGains: Input number k on, then the direct input
RECURSIVE RouteNewOutput(_, _, _, _, _)
RouteNewOutput(st, sv, sn, id, k) ==
    IF k > Len(st.inputs)
    THEN LET r == ToggleRouting(st, sv, "direct", 0, id)
         IN  [store |-> r.store, saved |-> r.saved, strips |-> UpdateAllGains(sn, r.store)]
    ELSE LET r == ToggleRouting(st, sv, "hardware", st.inputs[k].id, id)
         IN  RouteNewOutput(r.store, r.saved, UpdateAllGains(sn, r.store), id, k + 1)

\* UI.addNewOutput
AddNewOutput ==
    /\ GetAvailableId(store.outputs) \in RigOutputIds
    /\ LET a  == AddOutput(store, saved)
           id == ValueOf(a.ret)
           r  == RouteNewOutput(a.store, a.saved, strips, id, 1)
           newData == r.store.outputs[FindIndex(r.store.outputs, id)]
       IN  /\ store' = r.store
           /\ saved' = r.saved
           /\ strips' = IF isRunning
                        THEN CreateStripContext(r.strips, hardwareInputs, newData)
                        ELSE r.strips
    /\ lastCall' = Handled(~isRunning)
    /\ UNCHANGED <<isRunning, hardwareInputs, gainsOnly>>

\* UI.removeOutput, confirmed
ClickRemoveOutput ==
    \E id \in IdsOf(store.outputs) :
        /\ LET r == RemoveOutput(store, saved, id)
           IN  /\ store' = r.store
               /\ saved' = r.saved
        /\ strips' = RemoveStripContext(strips, id)
        /\ lastCall' = Handled(FALSE)
        /\ UNCHANGED <<isRunning, hardwareInputs, gainsOnly>>

\* a routing button: they exist for the live Outputs only
ClickRoute ==
    \E type \in {"hardware", "direct"}, inputId \in IdsOf(store.inputs) \cup {0},
       outputId \in IdsOf(store.outputs) :
        /\ (type = "direct") <=> (inputId = 0)
        /\ LET r == ToggleRouting(store, saved, type, inputId, outputId)
           IN  /\ store' = r.store
               /\ saved' = r.saved
               /\ strips' = UpdateAllGains(strips, r.store)
        /\ lastCall' = Handled(TRUE)
        /\ UNCHANGED <<isRunning, hardwareInputs, gainsOnly>>

\* an Input's fader moved and released: oninput, then onchange
InputFader ==
    \E k \in DOMAIN store.inputs, val \in VolumeValues :
        LET data == [store EXCEPT !.inputs[k].volume = val]
        IN  /\ store' = data
            /\ strips' = UpdateAllGains(strips, data)
            /\ saved' = Save(data)
            /\ lastCall' = Handled(TRUE)
            /\ UNCHANGED <<isRunning, hardwareInputs, gainsOnly>>

\* the direct input's fader moved and released
DirectFader ==
    \E val \in VolumeValues :
        LET data == [store EXCEPT !.directGain = val]
        IN  /\ store' = data
            /\ strips' = UpdateAllGains(strips, data)
            /\ saved' = Save(data)
            /\ lastCall' = Handled(TRUE)
            /\ UNCHANGED <<isRunning, hardwareInputs, gainsOnly>>

\* the direct input's mute button
DirectMute ==
    LET data == [store EXCEPT !.directMuted = ~@]
    IN  /\ store' = data
        /\ strips' = UpdateAllGains(strips, data)
        /\ saved' = Save(data)
        /\ lastCall' = Handled(TRUE)
        /\ UNCHANGED <<isRunning, hardwareInputs, gainsOnly>>

\* an Output's fader moved and released
OutputFader ==
    \E k \in DOMAIN store.outputs, val \in VolumeValues :
        LET data == [store EXCEPT !.outputs[k].volume = val]
        IN  /\ store' = data
            /\ strips' = UpdateStripParams(strips, data, data.outputs[k].id)
            /\ saved' = Save(data)
            /\ lastCall' = Handled(FALSE)
            /\ UNCHANGED <<isRunning, hardwareInputs, gainsOnly>>

\* an Output's mute button
OutputMute ==
    \E k \in DOMAIN store.outputs :
        LET data == [store EXCEPT !.outputs[k].isMuted = ~@]
        IN  /\ store' = data
            /\ strips' = UpdateStripParams(strips, data, data.outputs[k].id)
            /\ saved' = Save(data)
            /\ lastCall' = Handled(FALSE)
            /\ UNCHANGED <<isRunning, hardwareInputs, gainsOnly>>

\* updateStripParams for Output number k on
RECURSIVE UpdateEveryStrip(_, _, _)
UpdateEveryStrip(sn, data, k) ==
    IF k > Len(data.outputs) THEN sn
    ELSE UpdateEveryStrip(UpdateStripParams(sn, data, data.outputs[k].id), data, k + 1)

\* 'toggle-global-mute' from the tray: mute every Output if one is unmuted,
\* else unmute them all
GlobalMute ==
    LET muteAll == \E k \in DOMAIN store.outputs : ~store.outputs[k].isMuted
        data == [store EXCEPT !.outputs =
                    [k \in DOMAIN store.outputs |-> [store.outputs[k] EXCEPT !.isMuted = muteAll]]]
    IN  /\ store' = data
        /\ saved' = Save(data)
        /\ strips' = UpdateEveryStrip(strips, data, 1)
        /\ lastCall' = Handled(FALSE)
        /\ UNCHANGED <<isRunning, hardwareInputs, gainsOnly>>

NextGains ==
    \/ ClickStart
    \/ AddNewInput
    \/ ClickRemoveInput
    \/ AddNewOutput
    \/ ClickRemoveOutput
    \/ ClickRoute
    \/ InputFader
    \/ DirectFader
    \/ DirectMute
    \/ OutputFader
    \/ OutputMute
    \/ GlobalMute

SpecGains == InitGains /\ [][NextGains]_vars

(***************************************************************************)
(* Claims about the gains (checked under SpecGains)                        *)
(***************************************************************************)
\* the Store's entry for Input inputId
InputData(inputId) == store.inputs[FindIndex(store.inputs, inputId)]

\* the chains of live Outputs and, on each, the taps of live Inputs
LiveStrips == DOMAIN strips \cap IdsOf(store.outputs)
LiveTaps(o) == DOMAIN strips[o].hwInputGains \cap IdsOf(store.inputs)

\* C17: right after a gain recomputation, on every live Output's chain the
\* tap of every hardware Input that is not routed to that Output has target
\* 0, and so has the direct input's tap if the direct input is not routed
\* there, whatever the volumes stored.
RouteOffSilent ==
    lastCall.recomputed =>
        \A o \in LiveStrips :
            /\ \A i \in LiveTaps(o) :
                  ~IsRouted(store, "hardware", i, o) => strips[o].hwInputGains[i] = 0
            /\ ~IsRouted(store, "direct", 0, o) => strips[o].directGain = 0

\* an Input and the direct input, both with a volume, are routed to one
\* Output and not to the other, whose chain has their taps at 0
RouteOffSilentWitness ==
    /\ lastCall.recomputed
    /\ \E o \in LiveStrips, p \in LiveStrips, i \in IdsOf(store.inputs) :
          /\ i \in LiveTaps(o) /\ i \in LiveTaps(p)
          /\ InputData(i).volume > 0
          /\ store.directGain > 0 /\ ~store.directMuted
          /\ ~IsRouted(store, "hardware", i, o) /\ IsRouted(store, "hardware", i, p)
          /\ ~IsRouted(store, "direct", 0, o) /\ IsRouted(store, "direct", 0, p)
          /\ strips[o].hwInputGains[i] = 0 /\ strips[o].directGain = 0
          /\ strips[p].hwInputGains[i] > 0 /\ strips[p].directGain > 0

\* C18: right after a gain recomputation, on every live Output's chain the
\* tap of every hardware Input whose isMuted is set has target 0, and so has
\* the direct input's tap if directMuted is set, routed or not and whatever
\* the volume; and the master gain of every muted Output has target 0.
MuteOverridesVolume ==
    lastCall.recomputed =>
        \A o \in LiveStrips :
            /\ \A i \in LiveTaps(o) :
                  InputData(i).isMuted => strips[o].hwInputGains[i] = 0
            /\ store.directMuted => strips[o].directGain = 0
            /\ store.outputs[FindIndex(store.outputs, o)].isMuted => strips[o].masterVol = 0

\* C19: right after a gain recomputation, the tap of a hardware Input that
\* is routed to an Output and not muted has the Input's stored volume as its
\* target on that Output's chain, whatever the Output's volume and whatever
\* else the Input is routed to.
PerPairGain ==
    lastCall.recomputed =>
        \A o \in LiveStrips : \A i \in LiveTaps(o) :
            (IsRouted(store, "hardware", i, o) /\ ~InputData(i).isMuted) =>
                strips[o].hwInputGains[i] = InputData(i).volume

\* an Input at 0.5 routed to Output 1 only: 0.5 on Output 1, whose own
\* volume is another, and 0 on Output 2
PerPairGainWitness ==
    /\ lastCall.recomputed
    /\ {1, 2} \subseteq LiveStrips
    /\ \E i \in LiveTaps(1) \cap LiveTaps(2) :
          /\ InputData(i).volume = 50 /\ ~InputData(i).isMuted
          /\ InputData(i).routing = <<1>>
          /\ store.outputs[FindIndex(store.outputs, 1)].volume = 100
          /\ strips[1].hwInputGains[i] = 50
          /\ strips[2].hwInputGains[i] = 0

\* C24: right after a gain recomputation, the direct input's tap on every
\* live Output's chain has target directGain if the Output is in the
\* direct-routing set and the direct input is not muted, and 0 otherwise.
DirectPathGain ==
    lastCall.recomputed =>
        \A o \in LiveStrips :
            strips[o].directGain =
                IF o \in store.directRoutingSet /\ ~store.directMuted
                THEN store.directGain ELSE 0

\* the direct input at 0.5 and unmuted, routed to one of two Outputs: 0.5
\* there and 0 on the other
DirectPathGainWitness ==
    /\ lastCall.recomputed
    /\ store.directGain = 50 /\ ~store.directMuted
    /\ \E o \in LiveStrips, p \in LiveStrips :
          /\ o \in store.directRoutingSet /\ p \notin store.directRoutingSet
          /\ strips[o].directGain = 50 /\ strips[p].directGain = 0

\* C25: whenever the engine is running and no handler is in progress, on
\* every live Output's chain the tap of every hardware Input and the direct
\* input's tap have the targets updateAllGains computes from the Store as it
\* is; so the chain of an Output added while the engine runs has them too.
GainsFollowMatrix ==
    isRunning =>
        \A o \in LiveStrips :
            /\ \A i \in LiveTaps(o) : strips[o].hwInputGains[i] = HwTarget(InputData(i), o)
            /\ strips[o].directGain = DirTarget(store, o)

(***************************************************************************)
(* SpecSched: the running engine's scheduler tick over two chains          *)
(***************************************************************************)
\* the ring buffer of this specification holds two chunks
SchedRingSize == 2 * ChunkSize

\* the Store after a second Output was added to the fresh one and routed
SchedStore ==
    LET l == Load(NewStore, Undefined)
        a == AddOutput(l.store, l.saved)
    IN  RouteNewOutput(a.store, a.saved, NoStrips, ValueOf(a.ret), 1)

\* the values the buffer slider is set to: 0.05 s and 0.1 s
DirectBufferValues == {MinBuffer, FallbackBuffer}

schedOnly == <<hardwareInputs, isRunning, socket, socketState, isHeaderReceived,
               headerBuffer, sampleRate, status, wire, conn, lastData, lastOp,
               sockets, asyncVars>>

\* the engine just started on two Outputs: their chains new, their clocks and
\* cursors at 0, the ring buffer empty, the scheduler's timer set
InitSched ==
    /\ ringBuffer = NewRingBuffer(SchedRingSize)
    /\ lastOp = NoOp
    /\ produced = 0
    /\ socket = 0
    /\ socketState = "none"
    /\ isHeaderReceived = FALSE
    /\ headerBuffer = <<>>
    /\ sampleRate = DefaultSampleRate
    /\ status = Report(FALSE, Undefined)
    /\ wire = <<>>
    /\ conn = [n |-> 0, sender |-> "rate48000", received |-> <<>>, overCap |-> FALSE,
               decoded |-> FALSE, previous |-> "none"]
    /\ lastData = NoData
    /\ sockets = <<>>
    /\ isRunning = TRUE
    /\ store = SchedStore.store
    /\ saved = SchedStore.saved
    /\ hardwareInputs = IdsOf(SchedStore.store.inputs)
    /\ strips = Start(SchedStore.store, IdsOf(SchedStore.store.inputs))
    /\ now = [o \in IdsOf(SchedStore.store.outputs) |-> 0]
    /\ lastCall = NoCall
    /\ schedulerInterval = 1
    /\ intervals = {1}
    /\ starts = <<>>

\* processDirectAudio(floatArray, 48000, 2) with up to a chunk of decoded
\* frames, from a caller that gives the channel count
Feed ==
    /\ \A o \in DOMAIN strips : strips[o].nextAudioTime <= MaxTime
    /\ \E n \in 1 .. ChunkSize :
          /\ ringBuffer' = ProcessDirectAudio(ringBuffer, isRunning,
                               FramesArray(produced, n, 2), 48000, Num(2))
          /\ produced' = (produced + n) % FrameNumbers
    /\ lastCall' = [NoCall EXCEPT !.op = "processDirectAudio"]
    /\ UNCHANGED <<store, saved, strips, now, schedOnly>>

\* the 20 ms interval fires: scheduleAudio()
Tick ==
    LET r == ScheduleAudio(isRunning, ringBuffer, strips, store, now)
    IN  /\ ringBuffer' = r.rb
        /\ strips' = r.strips
        /\ store' = r.data
        /\ lastCall' = [NoCall EXCEPT !.op = "scheduleAudio", !.pops = r.pops,
                                      !.events = r.events]
        /\ UNCHANGED <<saved, now, produced, schedOnly>>

\* an Output's context clock moves on
ClockAdvance ==
    \E o \in DOMAIN now :
        /\ now[o] + ClockStep <= MaxTime
        /\ now' = [now EXCEPT ![o] = @ + ClockStep]
        /\ lastCall' = [NoCall EXCEPT !.op = "clock"]
        /\ UNCHANGED <<store, saved, strips, ringBuffer, produced, schedOnly>>

\* the buffer slider moved and released
BufferSlider ==
    \E val \in DirectBufferValues :
        LET data == [store EXCEPT !.directBuffer = val]
        IN  /\ store' = data
            /\ saved' = Save(data)
            /\ lastCall' = [NoCall EXCEPT !.op = "bufferSlider"]
            /\ UNCHANGED <<strips, now, ringBuffer, produced, schedOnly>>

NextSched == Feed \/ Tick \/ ClockAdvance \/ BufferSlider

SpecSched == InitSched /\ [][NextSched]_vars

(***************************************************************************)
(* Claims about the scheduler (checked under SpecSched)                    *)
(***************************************************************************)
\* the 50 ms the direct-scheduling variant adds on an underrun
UnderrunMargin == 150
\* the direct-scheduling variant's resetThreshold: 3 x userBuffer + 0.2 s
ResetThreshold(userBuffer) == 3 * userBuffer + 600

\* the sources the last call of scheduleAudio started
Events == {lastCall.events[k] : k \in DOMAIN lastCall.events}

\* C11: a chunk scheduled on an Output whose nextAudioTime is before its
\* clock starts at clock + target buffer + 50 ms.
UnderrunCorrection ==
    \A e \in Events :
        e.before < e.now => e.start = e.now + e.userBufferSec + UnderrunMargin

\* C12: a chunk scheduled on an Output whose nextAudioTime is more than
\* 3 x target buffer + 0.2 s ahead of its clock starts at clock + target
\* buffer.
OverrunCorrection ==
    \A e \in Events :
        e.before > e.now + ResetThreshold(e.userBufferSec) =>
            e.start = e.now + e.userBufferSec

\* the sources the call started on Output o, in order
EventsOn(events, o) == SelectSeq(events, LAMBDA e : e.output = o)

\* C13: a chunk scheduled on an Output whose nextAudioTime is neither
\* before its clock nor more than the reset threshold ahead of it starts at
\* nextAudioTime, which then advances by one chunk duration; and an
\* Output's nextAudioTime changes only by what was scheduled on that Output,
\* each correction taken from that Output's own clock.
SteadyState ==
    [][ lastCall'.op = "scheduleAudio" =>
          /\ \A k \in DOMAIN lastCall'.events :
                LET e == lastCall'.events[k]
                IN  /\ e.now = now[e.output]
                    /\ (e.now <= e.before /\ e.before <= e.now + ResetThreshold(e.userBufferSec)) =>
                          /\ e.start = e.before
                          /\ e.after = e.before + ChunkDuration
          /\ \A o \in DOMAIN strips :
                LET on == EventsOn(lastCall'.events, o)
                IN  /\ on = <<>> => strips'[o].nextAudioTime = strips[o].nextAudioTime
                    /\ on # <<>> =>
                          /\ on[1].before = strips[o].nextAudioTime
                          /\ on[Len(on)].after = strips'[o].nextAudioTime
                          /\ \A j \in 1 .. Len(on) - 1 : on[j + 1].before = on[j].after
      ]_vars

\* one call scheduled a chunk on both Outputs: Output 1, behind its clock,
\* was corrected; Output 2, ahead of its clock, was not, and moved on by one
\* chunk duration
SteadyStateWitness ==
    /\ lastCall.op = "scheduleAudio"
    /\ \E e \in Events, f \in Events :
          /\ e.output = 1 /\ f.output = 2
          /\ e.before < e.now /\ e.start # e.before
          /\ f.now <= f.before /\ f.now > 0
          /\ f.start = f.before
          /\ strips[2].nextAudioTime = f.before + ChunkDuration

\* C28: every chunk scheduled on an Output starts no earlier than that
\* Output's clock at the moment and no later than the clock + 3 x target
\* buffer + 0.2 s, whatever the arrival pattern.
BoundedLatency ==
    \A e \in Events :
        /\ e.now <= e.start
        /\ e.start <= e.now + ResetThreshold(e.userBufferSec)

\* C29: a scheduler tick on a running engine ends; its pops all succeed and
\* take a whole chunk each; it leaves fewer frames than a chunk queued; and
\* with fewer frames than a chunk queued it takes none and schedules
\* nothing.
TickDrainsChunks ==
    [][ lastCall'.op = "scheduleAudio" =>
          LET taken == ringBuffer.available - ringBuffer'.available
          IN  /\ \A k \in DOMAIN lastCall'.pops : lastCall'.pops[k] = TRUE
              /\ taken = ChunkSize * Len(lastCall'.pops)
              /\ ringBuffer'.available < ChunkSize
              /\ ringBuffer'.available >= 0
              /\ ringBuffer.available < ChunkSize =>
                    /\ ringBuffer' = ringBuffer
                    /\ lastCall'.pops = <<>>
                    /\ lastCall'.events = <<>>
                    /\ strips' = strips
      ]_vars

\* a tick found two chunks queued and took both, for both Outputs
TickDrainsChunksWitness ==
    /\ lastCall.op = "scheduleAudio"
    /\ Len(lastCall.pops) = 2
    /\ Len(lastCall.events) = 4

\* chunk number j of what is queued in rb, as pop hands it over
QueuedChunk(rb, j) ==
    [ch \in Channels |-> SubSeq(Drain(rb)[ch], (j - 1) * ChunkSize + 1, j * ChunkSize)]

\* C30: a tick pops each chunk once and starts it once on every chain that
\* is live, with the same samples on each: the sources started are, chunk
\* after chunk in the order the frames were queued, one per chain.
FanOut ==
    [][ lastCall'.op = "scheduleAudio" =>
          LET events == lastCall'.events
              chunks == Len(lastCall'.pops)
              live   == DOMAIN strips
              n      == Cardinality(live)
          IN  /\ Len(events) = chunks * n
              /\ \A j \in 1 .. chunks :
                    LET group == {events[k] : k \in (j - 1) * n + 1 .. j * n}
                    IN  /\ {e.output : e \in group} = live
                        /\ \A e \in group : e.buffer = QueuedChunk(ringBuffer, j)
              /\ \A o \in live : Len(EventsOn(events, o)) = chunks
      ]_vars

\* one tick gave two chunks, that differ, to both Outputs
FanOutWitness ==
    /\ lastCall.op = "scheduleAudio"
    /\ Len(lastCall.pops) = 2
    /\ \A o \in {1, 2} : Len(EventsOn(lastCall.events, o)) = 2
    /\ lastCall.events[1].buffer = lastCall.events[2].buffer
    /\ lastCall.events[1].buffer # lastCall.events[3].buffer

(***************************************************************************)
(* SpecPlay: from the connection to the scheduler tick                     *)
(***************************************************************************)
\* the senders of this specification: a valid stream at either rate
PlaySenders == {"rate48000", "rate44100"}
\* the lengths of the streaming chunks: one frame or two
PlayChunkLens == {FrameBytes, 2 * FrameBytes}

\* the connection callback, for a sender of PlaySenders
Connect == Accept /\ conn'.sender \in PlaySenders

\* socket.on('data'), before the handshake: the header arrives as one chunk
Handshake == DataHandshake /\ Len(lastData'.chunk) = HeaderLen

\* socket.on('data'), streaming, where the hand-off gives the channel count
\* of the wire format: processDirectAudio(floatArray, this.sampleRate, 2) on
\* the aligned chunk. (As ipc.js makes the call, without the count, nothing
\* is queued: DataAudio.)
Deliver ==
    /\ socketState = "open"
    /\ isHeaderReceived
    /\ \E n \in PlayChunkLens :
          LET chunk   == SliceTo(wire, n)
              aligned == Align(chunk)
              called  == Len(aligned) # 0
              floats  == IF called THEN ToFloat32Array(aligned) ELSE <<>>
          IN  /\ n <= Len(wire)
              /\ wire' = SliceFrom(wire, n)
              /\ ringBuffer' = IF called
                               THEN ProcessDirectAudio(ringBuffer, isRunning, floats,
                                                       sampleRate, Num(2))
                               ELSE ringBuffer
              /\ conn' = [conn EXCEPT !.received = @ \o chunk,
                                      !.decoded  = @ \/ called]
              /\ lastData' = [kind |-> "audio", chunk |-> chunk,
                              offset |-> Len(conn.received), handed |-> chunk,
                              called |-> called, floats |-> floats]
    /\ UNCHANGED <<socket, socketState, isHeaderReceived, headerBuffer, sampleRate,
                   status, isRunning, ringVars, sockets, mixVars>>

\* the engine running on two Outputs as in InitSched, no sender connected
\* yet; senders connect one after the other, and the interval fires
NextPlay == Connect \/ Handshake \/ Deliver \/ End \/ SocketError \/ Tick

SpecPlay == InitSched /\ [][NextPlay]_vars

EngineInputIds == {1, 2}
EngineOutputIds == {1, 2}

\* the Store after a second Input was added to the fresh one
EngineStore ==
    LET l == Load(NewStore, Undefined)
    IN  AddInput(l.store, l.saved)

engineOnly == <<now, ringBuffer, lastOp, produced, socket, socketState, isHeaderReceived,
                headerBuffer, sampleRate, status, wire, conn, lastData, sockets>>

\* the window after ui.init(): two Inputs, one Output, the engine not started
InitEngine ==
    /\ ringBuffer = NewRingBuffer(RingSize)
    /\ lastOp = NoOp
    /\ produced = 0
    /\ LinkIdle
    /\ store = EngineStore.store
    /\ saved = EngineStore.saved
    /\ strips = NoStrips
    /\ hardwareInputs = {}
    /\ now = NoStrips
    /\ lastCall = NoCall
    /\ AsyncIdle

\* the engine's fields, the timers and the suspended calls
Engine ==
    [isRunning |-> isRunning, strips |-> strips, hardwareInputs |-> hardwareInputs,
     schedulerInterval |-> schedulerInterval, intervals |-> intervals, starts |-> starts]

SetEngine(e) ==
    /\ isRunning' = e.isRunning
    /\ strips' = e.strips
    /\ hardwareInputs' = e.hardwareInputs
    /\ schedulerInterval' = e.schedulerInterval
    /\ intervals' = e.intervals
    /\ starts' = e.starts

\* setInterval: a handle no live timer has
SetInterval(ivs) == CHOOSE h \in 1 .. Cardinality(ivs) + 1 : h \notin ivs

\* AudioEngine.stop()
Stop(e) ==
    IF ~e.isRunning THEN e
    ELSE [e EXCEPT !.intervals = IF e.schedulerInterval # 0
                                 THEN @ \ {e.schedulerInterval} ELSE @,
                   !.schedulerInterval = 0,
                   !.strips = NoStrips,
                   !.hardwareInputs = {},
                   !.isRunning = FALSE]

\* start(), after its loops: updateAllGains() and setInterval
FinishStart(e, data) ==
    LET h == SetInterval(e.intervals)
    IN  [e EXCEPT !.strips = UpdateAllGains(@, data),
                  !.schedulerInterval = h,
                  !.intervals = @ \cup {h}]

\* start(), its two loops from Input number k of store.data.inputs on, up to
\* the next getUserMedia it awaits or to its end. setupHardwareInput returns
\* at once for an Input that has a stream. act is what is kept of the call:
\* the Inputs that failed so far and whether it began at rest and ran alone.
RECURSIVE StartFrom(_, _, _, _)
StartFrom(e, data, k, act) ==
    IF k <= Len(data.inputs)
    THEN IF data.inputs[k].id \in e.hardwareInputs
         THEN StartFrom(e, data, k + 1, act)
         ELSE [engine |-> e, suspended |-> TRUE,
               act |-> [act EXCEPT !.k = k, !.input = data.inputs[k].id]]
    ELSE [engine |-> FinishStart(
                        [e EXCEPT !.strips = CreateStrips(@, e.hardwareInputs,
                                                          data.outputs, 1)], data),
          suspended |-> FALSE,
          act |-> act]

\* the engine stopped with nothing left of an earlier run: what the
\* constructor and an undisturbed stop() leave
AtRest(e) ==
    /\ ~e.isRunning
    /\ e.strips = NoStrips
    /\ e.hardwareInputs = {}
    /\ e.intervals = {}
    /\ e.starts = <<>>

\* every suspended call has had something else run meanwhile
Disturbed(ss) == [a \in DOMAIN ss |-> [ss[a] EXCEPT !.alone = FALSE]]

\* what lastCall keeps of a call of start() that reached r
StartCall(r) ==
    IF r.suspended
    THEN [NoCall EXCEPT !.op = "getUserMedia"]
    ELSE [NoCall EXCEPT !.op = "start", !.failed = r.act.failed, !.alone = r.act.alone,
                        !.recomputed = TRUE]

\* AudioEngine.start() called: the engine and lastCall afterwards
Begin(e, data) ==
    IF e.isRunning
    THEN [engine |-> [e EXCEPT !.starts = Disturbed(@)],
          call   |-> [NoCall EXCEPT !.op = "window"]]
    ELSE LET r == StartFrom([e EXCEPT !.isRunning = TRUE], data, 1,
                            [k |-> 0, input |-> 0, failed |-> {},
                             alone |-> AtRest(e)])
         IN  [engine |-> [r.engine EXCEPT !.starts =
                             IF r.suspended THEN Append(Disturbed(@), r.act)
                             ELSE Disturbed(@)],
              call   |-> StartCall(r)]

\* (mutant) setupHardwareInput without its try / catch
SettleInputRethrows(hw, id, ok) ==
    IF ok THEN [hw |-> hw \cup {id}, thrown |-> FALSE]
    ELSE [hw |-> hw, thrown |-> TRUE]

\* setupHardwareInput after getUserMedia settled: hardwareInputs, and whether
\* an exception leaves it. A rejection is caught and logged.
SettleInput(hw, id, ok) ==
    IF ok THEN [hw |-> hw \cup {id}, thrown |-> FALSE]
    ELSE [hw |-> hw, thrown |-> FALSE]

\* start() is followed while the calls in flight and the timers alive are
\* fewer than MaxTimers
CanStart(e) == Len(e.starts) + Cardinality(e.intervals) < MaxTimers

\* the start button: stop() when running, else start()
EngClickStart ==
    /\ IF isRunning
       THEN /\ SetEngine([Stop(Engine) EXCEPT !.starts = Disturbed(@)])
            /\ lastCall' = [NoCall EXCEPT !.op = "stop"]
       ELSE /\ CanStart(Engine)
            /\ LET b == Begin(Engine, store)
               IN  /\ SetEngine(b.engine)
                   /\ lastCall' = b.call
    /\ UNCHANGED <<store, saved, engineOnly>>

\* `if (audio.isRunning) { audio.stop(); audio.start(); }` after the Store
\* became data
EngRestart(data) ==
    IF isRunning
    THEN /\ CanStart(Stop(Engine))
         /\ LET b == Begin(Stop(Engine), data)
            IN  /\ SetEngine(b.engine)
                /\ lastCall' = b.call
    ELSE /\ SetEngine([Engine EXCEPT !.starts = Disturbed(@)])
         /\ lastCall' = [NoCall EXCEPT !.op = "window"]

\* UI.addNewInput
EngAddNewInput ==
    /\ GetAvailableId(store.inputs) \in EngineInputIds
    /\ LET r == AddInput(store, saved)
       IN  /\ store' = r.store
           /\ saved' = r.saved
           /\ EngRestart(r.store)
    /\ UNCHANGED engineOnly

\* UI.removeInput, confirmed
EngRemoveInput ==
    /\ \E id \in IdsOf(store.inputs) :
          LET r == RemoveInput(store, saved, id)
          IN  /\ store' = r.store
              /\ saved' = r.saved
              /\ EngRestart(r.store)
    /\ UNCHANGED engineOnly

\* UI.addNewOutput
EngAddNewOutput ==
    /\ GetAvailableId(store.outputs) \in EngineOutputIds
    /\ LET a  == AddOutput(store, saved)
           id == ValueOf(a.ret)
           r  == RouteNewOutput(a.store, a.saved, strips, id, 1)
           newData == r.store.outputs[FindIndex(r.store.outputs, id)]
       IN  /\ store' = r.store
           /\ saved' = r.saved
           /\ strips' = IF isRunning
                        THEN CreateStripContext(r.strips, hardwareInputs, newData)
                        ELSE r.strips
    /\ starts' = Disturbed(starts)
    /\ lastCall' = [NoCall EXCEPT !.op = "window"]
    /\ UNCHANGED <<isRunning, hardwareInputs, schedulerInterval, intervals, engineOnly>>

\* UI.removeOutput, confirmed
EngRemoveOutput ==
    /\ \E id \in IdsOf(store.outputs) :
          /\ LET r == RemoveOutput(store, saved, id)
             IN  /\ store' = r.store
                 /\ saved' = r.saved
          /\ strips' = RemoveStripContext(strips, id)
    /\ starts' = Disturbed(starts)
    /\ lastCall' = [NoCall EXCEPT !.op = "window"]
    /\ UNCHANGED <<isRunning, hardwareInputs, schedulerInterval, intervals, engineOnly>>

\* the others of the suspended calls ss than number a
Others(ss, a) == Disturbed(SubSeq(ss, 1, a - 1) \o SubSeq(ss, a + 1, Len(ss)))

\* the getUserMedia a suspended start() awaits settles, with a stream or with
\* a rejection, and the call runs on: to its next getUserMedia, to its end,
\* or into its catch (isRunning = false) when an exception reaches it
GetUserMediaSettles ==
    \E a \in DOMAIN starts, ok \in BOOLEAN :
        LET act == starts[a]
            s   == SettleInput(hardwareInputs, act.input, ok)
            e   == [Engine EXCEPT !.hardwareInputs = s.hw, !.starts = Others(@, a)]
            r   == StartFrom(e, store, act.k + 1,
                             [act EXCEPT !.failed = IF ok THEN @ ELSE @ \cup {act.input}])
        IN  /\ IF s.thrown
               THEN /\ SetEngine([e EXCEPT !.isRunning = FALSE])
                    /\ lastCall' = [NoCall EXCEPT !.op = "start", !.thrown = TRUE,
                                                   !.failed = act.failed \cup {act.input},
                                                   !.alone = act.alone]
               ELSE /\ SetEngine([r.engine EXCEPT !.starts =
                                     IF r.suspended THEN Append(@, r.act) ELSE @])
                    /\ lastCall' = StartCall(r)
            /\ UNCHANGED <<store, saved, engineOnly>>

NextEngine ==
    \/ EngClickStart
    \/ EngAddNewInput
    \/ EngRemoveInput
    \/ EngAddNewOutput
    \/ EngRemoveOutput
    \/ GetUserMediaSettles

SpecEngine == InitEngine /\ [][NextEngine]_vars

ChainsMirrorOutputs ==
    starts = <<>> =>
        DOMAIN strips = IF isRunning THEN IdsOf(store.outputs) ELSE {}

\* C27: at most one scheduler timer exists at any time, and none when the
\* engine is stopped with no call of start() in flight.
SingleScheduler ==
    /\ Cardinality(intervals) <= 1
    /\ (~isRunning /\ starts = <<>>) => intervals = {}

(***************************************************************************)
(* Further claims about the ring buffer (checked under SpecRing)           *)
(***************************************************************************)
\* C34: in every state push, pop and clear reach, the read cursor plus the
\* frames available is the write cursor modulo the capacity, and both
\* cursors lie in 0 .. capacity - 1.
CursorConsistency ==
    /\ (ringBuffer.readPtr + ringBuffer.available) % ringBuffer.size = ringBuffer.writePtr
    /\ ringBuffer.readPtr \in 0 .. ringBuffer.size - 1
    /\ ringBuffer.writePtr \in 0 .. ringBuffer.size - 1

\* the queued frames wrap around the end of the buffer
CursorConsistencyWitness ==
    /\ ringBuffer.available > 0
    /\ ringBuffer.writePtr < ringBuffer.readPtr
    /\ ringBuffer.readPtr + ringBuffer.available > ringBuffer.size

(***************************************************************************)
(* Further claims about the Store (checked under SpecStore)                *)
(***************************************************************************)
\* the routing matrix of st: the edges (source, output id), the direct input
\* being source 0
Edges(st) ==
    {<<0, o>> : o \in st.directRoutingSet}
        \cup UNION {{<<st.inputs[k].id, st.inputs[k].routing[i]>> :
                        i \in DOMAIN st.inputs[k].routing} : k \in DOMAIN st.inputs}

\* everything of st but its routes
BesidesRoutes(st) ==
    [st EXCEPT !.directRoutingSet = {},
               !.inputs = [k \in DOMAIN st.inputs |-> [st.inputs[k] EXCEPT !.routing = <<>>]]]

SymDiff(a, b) == (a \ b) \cup (b \ a)

\* C33: in every state of the Store, toggleRouting for the direct input or
\* a live Input and any output id changes the routing matrix by exactly the
\* edge (source, output id), leaves everything else of the Store as it was
\* and emits 'routing-changed'; the same call made again gives back the
\* routing matrix there was.
ToggleFlipsOneEdge ==
    \A source \in {0} \cup IdsOf(store.inputs), outputId \in OutputIdArgs :
        LET type == IF source = 0 THEN "direct" ELSE "hardware"
            once  == ToggleRouting(store, saved, type, source, outputId)
            twice == ToggleRouting(once.store, once.saved, type, source, outputId)
        IN  /\ SymDiff(Edges(once.store), Edges(store)) = {<<source, outputId>>}
            /\ BesidesRoutes(once.store) = BesidesRoutes(store)
            /\ once.emitted
            /\ Edges(twice.store) = Edges(store)
            /\ BesidesRoutes(twice.store) = BesidesRoutes(store)
            /\ twice.emitted

\* toggleRouting was called on a live pair in a Store where an Input is
\* routed to both Outputs, the first of which a toggle takes out again
ToggleFlipsOneEdgeWitness ==
    /\ lastCall.op = "toggleRouting"
    /\ lastCall.emitted
    /\ lastCall.known
    /\ \E k \in DOMAIN store.inputs : Len(store.inputs[k].routing) = 2
    /\ store.directRoutingSet # {}

(***************************************************************************)
(* Further claims about the gains (checked under SpecGains)                *)
(***************************************************************************)
\* C35: in every state, updateAllGains run twice in a row on the same Store
\* leaves every tap of every chain with the target that one run leaves.
GainsIdempotent ==
    UpdateAllGains(UpdateAllGains(strips, store), store) = UpdateAllGains(strips, store)

\* updateAllGains has just run on two chains and left a hardware tap and a
\* direct tap open
GainsIdempotentWitness ==
    /\ lastCall.recomputed
    /\ {1, 2} \subseteq LiveStrips
    /\ \E o \in LiveStrips : \E i \in LiveTaps(o) : strips[o].hwInputGains[i] > 0
    /\ \E o \in LiveStrips : strips[o].directGain > 0
    /\ strips = UpdateAllGains(strips, store)

(***************************************************************************)
(* SpecDrift: the scheduler with the buffer slider over its whole range    *)
(***************************************************************************)
\* the values the buffer slider is set to here: 0 s, 0.02 s, 0.05 s, 0.1 s
TargetBufferSettings == {0, 60, MinBuffer, FallbackBuffer}

\* the buffer slider moved and released, to any of TargetBufferSettings
SetTargetBuffer ==
    \E val \in TargetBufferSettings :
        LET data == [store EXCEPT !.directBuffer = val]
        IN  /\ store' = data
            /\ saved' = Save(data)
            /\ lastCall' = [NoCall EXCEPT !.op = "bufferSlider"]
            /\ UNCHANGED <<strips, now, ringBuffer, produced, schedOnly>>

NextDrift == Feed \/ Tick \/ ClockAdvance \/ SetTargetBuffer

SpecDrift == InitSched /\ [][NextDrift]_vars

\* C36: a tick that corrects a chain's cursor uses as target buffer the
\* larger of the configured directBuffer and 50 ms, for every configured
\* value from 0 on.
MinimumTargetBuffer ==
    [][ lastCall'.op = "scheduleAudio" =>
          \A k \in DOMAIN lastCall'.events :
              lastCall'.events[k].before < lastCall'.events[k].now =>
                  lastCall'.events[k].userBufferSec = Max(store.directBuffer, MinBuffer)
      ]_vars

(***************************************************************************)
(* Further claims about the scheduler (checked under SpecSched)            *)
(***************************************************************************)
\* C37: the configured directBuffer changes through the buffer slider only:
\* no tick of the scheduler, whatever correction it makes, writes it.
TargetBufferReadOnly ==
    [][ store'.directBuffer # store.directBuffer => lastCall'.op = "bufferSlider" ]_vars

(***************************************************************************)
(* SpecDirect: the direct-scheduling processDirectAudio (js/audio.js,      *)
(* lines 193-239), which schedules each received block at once             *)
(***************************************************************************)
\* 1. Underrun: nodes.nextAudioTime < currentTime
DirectIsUnderrun(nodes, currentTime) == nodes.nextAudioTime < currentTime

\* nextAudioTime after the underrun test: currentTime + userBuffer + 0.05
DirectAfterUnderrun(nodes, currentTime, userBuffer) ==
    IF DirectIsUnderrun(nodes, currentTime)
    THEN currentTime + userBuffer + UnderrunMargin
    ELSE nodes.nextAudioTime

\* (mutant) the overrun test against the target buffer itself
DirectIsOverrunTight(nextAudioTime, currentTime, userBuffer) ==
    nextAudioTime > currentTime + userBuffer

\* 2. Overrun: nodes.nextAudioTime > currentTime + resetThreshold
DirectIsOverrun(nextAudioTime, currentTime, userBuffer) ==
    nextAudioTime > currentTime + ResetThreshold(userBuffer)

\* nextAudioTime after the overrun test: currentTime + userBuffer
DirectAfterOverrun(nextAudioTime, currentTime, userBuffer) ==
    IF DirectIsOverrun(nextAudioTime, currentTime, userBuffer)
    THEN currentTime + userBuffer
    ELSE nextAudioTime

\* processDirectAudio, the body of strips.forEach for the chains in `ids`:
\* acc holds the strips and the sources started so far (chain, clock, cursor
\* before, whether each correction was applied, start time, target buffer)
RECURSIVE DirectScheduleOn(_, _, _, _, _)
DirectScheduleOn(acc, ids, clocks, userBuffer, duration) ==
    IF ids = {} THEN acc
    ELSE LET o     == CHOOSE x \in ids : \A y \in ids : x <= y
             nodes == acc.strips[o]
             t1    == DirectAfterUnderrun(nodes, clocks[o], userBuffer)
             start == DirectAfterOverrun(t1, clocks[o], userBuffer)
             event == [output |-> o, now |-> clocks[o], before |-> nodes.nextAudioTime,
                       underrun |-> DirectIsUnderrun(nodes, clocks[o]),
                       overrun |-> DirectIsOverrun(t1, clocks[o], userBuffer),
                       start |-> start, userBufferSec |-> userBuffer]
         IN  DirectScheduleOn(
                 [strips |-> [acc.strips EXCEPT ![o].nextAudioTime = start + duration],
                  events |-> Append(acc.events, event)],
                 ids \ {o}, clocks, userBuffer, duration)

\* processDirectAudio(floatArray, sampleRate) of the direct-scheduling
\* engine, for a block that lasts `duration`
DirectProcessDirectAudio(running, sn, data, clocks, duration) ==
    LET acc == [strips |-> sn, events |-> <<>>]
    IN  IF ~running THEN acc
        ELSE DirectScheduleOn(acc, DOMAIN sn, clocks, UserBufferSec(data.directBuffer),
                              duration)

\* a block of 1024 frames at 48000 Hz is decoded and handed over
DirectBlock ==
    /\ \A o \in DOMAIN strips : strips[o].nextAudioTime <= MaxTime
    /\ LET r == DirectProcessDirectAudio(isRunning, strips, store, now, ChunkDuration)
       IN  /\ strips' = r.strips
           /\ lastCall' = [NoCall EXCEPT !.op = "processDirectAudio", !.events = r.events]
    /\ UNCHANGED <<store, saved, now, ringBuffer, produced, schedOnly>>

NextDirect == DirectBlock \/ ClockAdvance \/ SetTargetBuffer

SpecDirect == InitSched /\ [][NextDirect]_vars

\* C38: of the underrun and the overrun correction at most one is applied to
\* a block on an Output: the time an underrun resumes at, now + target
\* buffer + 50 ms, is not beyond now + 3 x target buffer + 0.2 s; so a block
\* that met an underrun starts at now + target buffer + 50 ms.
CorrectionsExclusive ==
    \A k \in DOMAIN lastCall.events :
        LET e == lastCall.events[k]
        IN  lastCall.op = "processDirectAudio" =>
              /\ ~(e.underrun /\ e.overrun)
              /\ e.userBufferSec >= MinBuffer
              /\ e.now + e.userBufferSec + UnderrunMargin
                     <= e.now + ResetThreshold(e.userBufferSec)
              /\ e.underrun => e.start = e.now + e.userBufferSec + UnderrunMargin

\* one block met an underrun on one Output, at the smallest target buffer,
\* and none on the other
CorrectionsExclusiveWitness ==
    /\ lastCall.op = "processDirectAudio"
    /\ \E k \in DOMAIN lastCall.events :
          /\ lastCall.events[k].underrun
          /\ lastCall.events[k].userBufferSec = MinBuffer
    /\ \E k \in DOMAIN lastCall.events : ~lastCall.events[k].underrun

(***************************************************************************)
(* SpecFail: start() with a createStripContext that may throw              *)
(***************************************************************************)
\* start() taken in one step, nothing else running meanwhile. opened are the
\* Inputs whose getUserMedia gives a stream. k is the number, in
\* store.data.outputs, of the Output whose createStripContext throws before
\* it stores a chain (new AudioContext or a node constructor refusing), 0
\* when none does: the exception passes through start()'s catch, which sets
\* isRunning = false and throws it on.
StartOutcome(e, data, opened, k) ==
    LET began == [e EXCEPT !.isRunning = TRUE, !.hardwareInputs = @ \cup opened]
    IN  IF k = 0
        THEN FinishStart([began EXCEPT !.strips =
                             CreateStrips(@, began.hardwareInputs, data.outputs, 1)], data)
        ELSE [began EXCEPT !.strips = CreateStrips(@, began.hardwareInputs,
                                                   SubSeq(data.outputs, 1, k - 1), 1),
                           !.isRunning = FALSE]

\* the start button: stop() when running, else start() with any outcome
FailClickStart ==
    /\ IF isRunning
       THEN /\ SetEngine(Stop(Engine))
            /\ lastCall' = [NoCall EXCEPT !.op = "stop"]
       ELSE \E opened \in SUBSET (IdsOf(store.inputs) \ hardwareInputs),
               k \in 0 .. Len(store.outputs) :
                /\ SetEngine(StartOutcome(Engine, store, opened, k))
                /\ lastCall' = [NoCall EXCEPT !.op = "start", !.thrown = k # 0,
                                              !.recomputed = k = 0]
    /\ UNCHANGED <<store, saved, engineOnly>>

NextFail == FailClickStart \/ EngAddNewOutput \/ EngRemoveOutput

SpecFail == InitEngine /\ [][NextFail]_vars

\* C39: when start() ended by throwing, the engine is not running and holds
\* no chain, no input stream and no timer.
FailedStartLeavesNothing ==
    (lastCall.op = "start" /\ lastCall.thrown) =>
        /\ ~isRunning
        /\ strips = NoStrips
        /\ hardwareInputs = {}
        /\ intervals = {}
        /\ schedulerInterval = 0

(***************************************************************************)
(* SpecTwo: the server's connection callback with several sockets          *)
(***************************************************************************)
\* net.createServer calls the connection callback for every client that
\* connects, whether or not an earlier socket is still open. Each socket has
\* its own 'data', 'end' and 'error' handlers, and all of them work on the
\* one DirectServer: socket, isHeaderReceived, headerBuffer, sampleRate.
\* A socket of sockets: its state, the bytes its sender has written and the
\* socket has not delivered, how many it has delivered, and whether a 'data'
\* event of this socket completed a handshake (history).
TwoSenders == {"rate48000", "rate44100"}
\* the lengths of the chunks a socket delivers: half a header, a header, two
\* frames. With whole floats in every chunk, the four bytes read as a rate or
\* as a float are always four that a sender wrote as one value.
TwoChunkLens == {MagicLen, HeaderLen, HeaderLen + FrameBytes}

twoOnly == <<socketState, wire, conn, isRunning, ringVars, mixVars>>

\* the connection callback, for a sender that connects at any time
Connection ==
    /\ Len(sockets) < MaxConns
    /\ \E sender \in TwoSenders :
          sockets' = Append(sockets, [state |-> "open", sender |-> sender,
                                      wire |-> SenderStreams[sender],
                                      delivered |-> 0, shook |-> FALSE])
    /\ socket' = Len(sockets) + 1
    /\ isHeaderReceived' = FALSE
    /\ headerBuffer' = <<>>
    /\ status' = Report(FALSE, Undefined)
    /\ lastData' = NoData
    /\ UNCHANGED <<sampleRate, ringBuffer, twoOnly>>

\* socket.on('data') of socket c: handleHandshake or handleAudioData, by the
\* server's isHeaderReceived; handleHandshake destroys the socket it was given
DataOn(c) ==
    /\ sockets[c].state = "open"
    /\ \E n \in TwoChunkLens :
          /\ n <= Len(sockets[c].wire)
          /\ LET chunk == SliceTo(sockets[c].wire, n)
                 h     == HandleHandshake(chunk, isRunning, ringBuffer)
                 a     == HandleAudioData(chunk, sampleRate, isRunning, ringBuffer)
                 rest  == [sockets[c] EXCEPT !.wire = SliceFrom(@, n),
                                             !.delivered = @ + n]
             IN  IF ~isHeaderReceived
                 THEN /\ isHeaderReceived' = h.isHeaderReceived
                      /\ headerBuffer' = h.headerBuffer
                      /\ sampleRate' = h.sampleRate
                      /\ status' = h.status
                      /\ ringBuffer' = h.audio.rb
                      /\ sockets' = [sockets EXCEPT ![c] =
                                        [rest EXCEPT
                                            !.state = IF h.destroyed THEN "destroyed" ELSE @,
                                            !.shook = @ \/ h.isHeaderReceived]]
                      /\ lastData' = [kind |-> "handshake", chunk |-> chunk,
                                      offset |-> sockets[c].delivered, handed |-> h.handed,
                                      called |-> h.audio.called, floats |-> h.audio.floats]
                 ELSE /\ ringBuffer' = a.rb
                      /\ sockets' = [sockets EXCEPT ![c] = rest]
                      /\ lastData' = [kind |-> "audio", chunk |-> chunk,
                                      offset |-> sockets[c].delivered, handed |-> chunk,
                                      called |-> a.called, floats |-> a.floats]
                      /\ UNCHANGED <<isHeaderReceived, headerBuffer, sampleRate, status>>
    /\ socket' = socket
    /\ UNCHANGED twoOnly

\* a 'data' event on any open socket
Data == \E c \in DOMAIN sockets : DataOn(c)

\* socket.on('end') of socket c
EndOn(c) ==
    /\ sockets[c].state = "open"
    /\ sockets' = [sockets EXCEPT ![c].state = "ended", ![c].wire = <<>>]
    /\ status' = Report(FALSE, Undefined)
    /\ socket' = 0
    /\ lastData' = NoData
    /\ UNCHANGED <<isHeaderReceived, headerBuffer, sampleRate, ringBuffer, twoOnly>>

EndOfSender == \E c \in DOMAIN sockets : EndOn(c)

\* socket.on('error') of socket c
ErrorOn(c) ==
    /\ sockets[c].state = "open"
    /\ sockets' = [sockets EXCEPT ![c].state = "errored", ![c].wire = <<>>]
    /\ status' = Report(FALSE, Undefined)
    /\ lastData' = NoData
    /\ UNCHANGED <<socket, isHeaderReceived, headerBuffer, sampleRate, ringBuffer, twoOnly>>

ErrorOfSocket == \E c \in DOMAIN sockets : ErrorOn(c)

NextTwo == Connection \/ Data \/ EndOfSender \/ ErrorOfSocket

SpecTwo == Init /\ [][NextTwo]_vars

\* the rate a sender declares in its header
RateOf(sender) == IF sender = "rate44100" THEN 44100 ELSE 48000

\* C32: one sender at a time. Whenever a 'data' event of a socket hands bytes
\* to the streaming path, a 'data' event of that same socket has completed
\* the handshake, the bytes come after that socket's header, and the rate in
\* force is the one that socket's sender declared.
OwnHandshakeOnly ==
    [][ \A c \in DOMAIN sockets :
           (sockets'[c].delivered > sockets[c].delivered /\ Len(lastData'.handed) > 0)
           => /\ sockets'[c].shook
              /\ sampleRate' = RateOf(sockets[c].sender)
              /\ (lastData'.kind = "audio" => lastData'.offset >= HeaderLen) ]_vars
====
